---------------------------- MODULE Spec2Model ----------------------------
(***************************************************************************)
(* A model of the data-batching core of d3m-pipeline-regressor             *)
(* (src/dna/data.py): the structural key encoder (encode_dag), the         *)
(* grouping index (group_json_objects), the per-group sampler              *)
(* (RandomSampler), the grouped batch loader (GroupDataLoader) and the     *)
(* part of preprocess_data that assigns the structure key.                 *)
(*                                                                         *)
(* Python values are represented as follows.                               *)
(*   - A str that the code only concatenates or compares is a TLA+ string. *)
(*   - A str that the code takes apart (str.replace, str.split) is a       *)
(*     tuple of one-character strings.                                     *)
(*   - A dict is a sequence of [key, val] entries in insertion order       *)
(*     (Python dicts keep insertion order, and the loader enumerates its   *)
(*     groups in that order).                                              *)
(*   - A list is a sequence; Python's 0-based position p is position p+1.  *)
(* Every component has its own specification (SpecEncode, SpecPreprocess,  *)
(* SpecGroup, SpecSampler, SpecLoader); the variables of the other         *)
(* components stay at Idle.                                                *)
(***************************************************************************)
EXTENDS Integers, Sequences, FiniteSets, TLC

VARIABLES
    dag,              \* encode_dag: the argument
    encoding,         \* encode_dag: the returned string, once called
    train_data,       \* preprocess_data: its first argument (mutated in place)
    test_data,        \* preprocess_data: its second argument (mutated in place)
    preprocess_pc,    \* preprocess_data: "ready", "returned" or "KeyError"
    values_to_drop,   \* the list object that is DropMissingValues' default argument
    json_objects,     \* group_json_objects: its first argument
    group_key,        \* group_json_objects: its second argument
    grouped_objects,  \* group_json_objects: what the call returned or raised
    randoms,          \* the random.Random objects; randoms[1] is the random module's own
    samplers,         \* the RandomSampler objects
    sampler_iters,    \* the list iterators that RandomSampler.__iter__ returned
    permutations,     \* per sampler, the order it held after each __iter__ (history)
    loader,           \* the GroupDataLoader object
    passes,           \* the generators that iter(loader) returned, one per pass
    loaders,          \* two GroupDataLoader objects built one after the other
    dna_train,        \* the pipelines of the training data of a DAG model
    dna_test,         \* the pipeline of the instances of a prediction batch
    dna_model,        \* the DAG model object: reduction_name, _model, fitted
    dna_pc,           \* "constructed", "training", "fitted", "predicted", "exited", "raised"
    forwards,         \* the forward evaluations made so far, with their results
    model_obj,        \* a model object: its class, self.fitted, and whether fit has set its learned state
    predict_calls,     \* the predict_* calls made on it so far, with their outcomes
    split_args,       \* split_data: its arguments data, group_by_key, test_size, seed
    split_calls,      \* split_data: what each call with these arguments returned
    run_args,         \* an evaluation run: the training data, the fit arguments, the seed, the Python build
    run_pc,           \* "constructed", "fitting" or "done"
    runs,             \* the evaluation runs made so far: the batches each pass gave the model, and the outcome
    subset_args,      \* predict_subset: the model's class, the pipeline ids of data, the predicted ranks, k
    subset_result,    \* predict_subset: what the call returned or raised, once made
    fit_args,         \* PyTorchModelBase.fit: n_epochs, the loss score of each epoch, the Python build
    fit_state,        \* PyTorchModelBase.fit: its locals, the model's parameters, the file model.pt
    problem_model,    \* the model object handed to ProblemBase.fit_predict
    problem_call,     \* the fit_predict call in progress, if any
    problem_calls,    \* the fit_predict calls that have ended (history)
    rnn_data,         \* the instances given to preprocess_data and then to an RNNDataLoader
    preprocess_inputs  \* the arguments of the preprocess_data calls made in this process, as given (history)

vars == <<dag, encoding, train_data, test_data, preprocess_pc, values_to_drop,
          json_objects, group_key, grouped_objects,
          randoms, samplers, sampler_iters, permutations, loader, passes,
          loaders, dna_train, dna_test, dna_model, dna_pc, forwards,
          model_obj, predict_calls,
          split_args, split_calls, run_args, run_pc, runs, subset_args, subset_result, fit_args, fit_state, problem_model, problem_call, problem_calls, rnn_data, preprocess_inputs>>

Idle == <<>>

\* The variables of each component, and the component left unused.
vars_encode == <<dag, encoding>>
vars_preprocess == <<train_data, test_data, preprocess_pc, values_to_drop>>
vars_group == <<json_objects, group_key, grouped_objects>>

EncodeIdle == dag = Idle /\ encoding = Idle
PreprocessIdle ==
    /\ train_data = Idle /\ test_data = Idle
    /\ preprocess_pc = Idle /\ values_to_drop = Idle
vars_sampler == <<randoms, samplers, sampler_iters, permutations>>
GroupIdle == json_objects = Idle /\ group_key = Idle /\ grouped_objects = Idle
SamplerIdle ==
    /\ randoms = Idle /\ samplers = Idle
    /\ sampler_iters = Idle /\ permutations = Idle

vars_loader == <<loader, passes>>
LoaderIdle == loader = Idle /\ passes = Idle
vars_pair == <<loaders>>
PairIdle == loaders = Idle

\* The components added after the loader.
vars_dna == <<dna_train, dna_test, dna_model, dna_pc, forwards>>
DnaIdle ==
    /\ dna_train = Idle /\ dna_test = Idle /\ dna_model = Idle
    /\ dna_pc = Idle /\ forwards = Idle
vars_predict == <<model_obj, predict_calls>>
PredictIdle == model_obj = Idle /\ predict_calls = Idle
\* The components added last: their variables.
vars_split == <<split_args, split_calls>>
SplitIdle == split_args = Idle /\ split_calls = Idle
vars_runs == <<run_args, run_pc, runs>>
RunsIdle == run_args = Idle /\ run_pc = Idle /\ runs = Idle
vars_subset == <<subset_args, subset_result>>
SubsetIdle == subset_args = Idle /\ subset_result = Idle
vars_fit == <<fit_args, fit_state>>
FitIdle == fit_args = Idle /\ fit_state = Idle
vars_problem == <<problem_model, problem_call, problem_calls>>
ProblemIdle == problem_model = Idle /\ problem_call = Idle /\ problem_calls = Idle
vars_rnn == <<rnn_data>>
RnnIdle == rnn_data = Idle
vars_again == <<preprocess_inputs>>
AgainIdle == preprocess_inputs = Idle
vars_rest == <<vars_split, vars_runs, vars_subset, vars_fit, vars_problem, vars_rnn, vars_again>>
RestIdle == SplitIdle /\ RunsIdle /\ SubsetIdle /\ FitIdle /\ ProblemIdle /\ RnnIdle /\ AgainIdle
vars_later == <<vars_pair, vars_dna, vars_predict, vars_rest>>
LaterIdle == PairIdle /\ DnaIdle /\ PredictIdle /\ RestIdle

others_of_encode == <<vars_preprocess, vars_group, vars_sampler, vars_loader, vars_later>>
others_of_preprocess == <<vars_encode, vars_group, vars_sampler, vars_loader, vars_later>>
others_of_group == <<vars_encode, vars_preprocess, vars_sampler, vars_loader, vars_later>>
others_of_sampler == <<vars_encode, vars_preprocess, vars_group, vars_loader, vars_later>>
others_of_loader == <<vars_encode, vars_preprocess, vars_group,
                      sampler_iters, permutations, vars_later>>

\* The components added last: what each leaves alone.
others_of_split ==
    <<vars_encode, vars_preprocess, vars_group, vars_sampler, vars_loader,
      vars_pair, vars_dna, vars_predict, vars_runs, vars_subset,
      vars_fit, vars_problem, vars_rnn, vars_again>>
SplitAlone ==
    /\ EncodeIdle /\ PreprocessIdle /\ GroupIdle /\ SamplerIdle /\ LoaderIdle
    /\ PairIdle /\ DnaIdle /\ PredictIdle /\ RunsIdle /\ SubsetIdle
    /\ FitIdle /\ ProblemIdle /\ RnnIdle /\ AgainIdle
others_of_runs ==
    <<vars_encode, vars_preprocess, vars_group, vars_pair, vars_dna,
      vars_predict, vars_split, vars_subset, vars_fit, vars_problem,
      vars_rnn, vars_again, sampler_iters, permutations>>
RunsAlone ==
    /\ EncodeIdle /\ PreprocessIdle /\ GroupIdle /\ PairIdle /\ DnaIdle
    /\ PredictIdle /\ SplitIdle /\ SubsetIdle /\ FitIdle /\ ProblemIdle
    /\ RnnIdle /\ AgainIdle /\ sampler_iters = Idle /\ permutations = Idle
others_of_subset ==
    <<vars_encode, vars_preprocess, vars_group, vars_sampler, vars_loader,
      vars_pair, vars_dna, vars_predict, vars_split, vars_runs,
      vars_fit, vars_problem, vars_rnn, vars_again>>
SubsetAlone ==
    /\ EncodeIdle /\ PreprocessIdle /\ GroupIdle /\ SamplerIdle /\ LoaderIdle
    /\ PairIdle /\ DnaIdle /\ PredictIdle /\ SplitIdle /\ RunsIdle
    /\ FitIdle /\ ProblemIdle /\ RnnIdle /\ AgainIdle
others_of_fit ==
    <<vars_encode, vars_preprocess, vars_group, vars_sampler, vars_loader,
      vars_pair, vars_dna, vars_predict, vars_split, vars_runs,
      vars_subset, vars_problem, vars_rnn, vars_again>>
FitAlone ==
    /\ EncodeIdle /\ PreprocessIdle /\ GroupIdle /\ SamplerIdle /\ LoaderIdle
    /\ PairIdle /\ DnaIdle /\ PredictIdle /\ SplitIdle /\ RunsIdle
    /\ SubsetIdle /\ ProblemIdle /\ RnnIdle /\ AgainIdle
others_of_problem ==
    <<vars_encode, vars_preprocess, vars_group, vars_sampler, vars_loader,
      vars_pair, vars_dna, vars_predict, vars_split, vars_runs,
      vars_subset, vars_fit, vars_rnn, vars_again>>
ProblemAlone ==
    /\ EncodeIdle /\ PreprocessIdle /\ GroupIdle /\ SamplerIdle /\ LoaderIdle
    /\ PairIdle /\ DnaIdle /\ PredictIdle /\ SplitIdle /\ RunsIdle
    /\ SubsetIdle /\ FitIdle /\ RnnIdle /\ AgainIdle
others_of_rnn ==
    <<vars_encode, vars_preprocess, vars_group, vars_pair, vars_dna,
      vars_predict, vars_split, vars_runs, vars_subset, vars_fit,
      vars_problem, vars_again, sampler_iters, permutations>>
RnnAlone ==
    /\ EncodeIdle /\ PreprocessIdle /\ GroupIdle /\ PairIdle /\ DnaIdle
    /\ PredictIdle /\ SplitIdle /\ RunsIdle /\ SubsetIdle /\ FitIdle
    /\ ProblemIdle /\ AgainIdle /\ sampler_iters = Idle /\ permutations = Idle
others_of_again ==
    <<vars_encode, vars_group, vars_sampler, vars_loader, vars_pair,
      vars_dna, vars_predict, vars_split, vars_runs, vars_subset,
      vars_fit, vars_problem, vars_rnn>>
AgainAlone ==
    /\ EncodeIdle /\ GroupIdle /\ SamplerIdle /\ LoaderIdle /\ PairIdle
    /\ DnaIdle /\ PredictIdle /\ SplitIdle /\ RunsIdle /\ SubsetIdle
    /\ FitIdle /\ ProblemIdle /\ RnnIdle

\* All sequences over S of length 0..n.
SeqsUpTo(S, n) == UNION {[1..k -> S] : k \in 0..n}

(***************************************************************************)
(* References of a step's inputs list: the string 'inputs.0' (the          *)
(* external feature vector) or an int indexing the pipeline's step list.   *)
(***************************************************************************)
IntRef(i) == [kind |-> "int", n |-> i, s |-> ""]
StrRef(str) == [kind |-> "str", n |-> 0, s |-> str]
Sentinel == StrRef("inputs.0")

\* str(d) of one decimal digit.
Digit(d) ==
    CASE d = 0 -> "0" [] d = 1 -> "1" [] d = 2 -> "2" [] d = 3 -> "3"
      [] d = 4 -> "4" [] d = 5 -> "5" [] d = 6 -> "6" [] d = 7 -> "7"
      [] d = 8 -> "8" [] d = 9 -> "9"

\* str(i) of a non-negative int: its decimal digits.
RECURSIVE IntToStr(_)
IntToStr(i) == IF i < 10 THEN Digit(i) ELSE IntToStr(i \div 10) \o Digit(i % 10)

\* str(edge): a str is returned as it is, an int is written in decimal.
Str(edge) == IF edge.kind = "str" THEN edge.s ELSE IntToStr(edge.n)

\* ''.join(parts) for a sequence of strings.
RECURSIVE Join(_)
Join(parts) == IF parts = <<>> THEN "" ELSE Head(parts) \o Join(Tail(parts))

\* data.py:164  ''.join(''.join(str(edge) for edge in vertex) for vertex in dag)
encode_dag(d) ==
    Join([v \in 1..Len(d) |-> Join([e \in 1..Len(d[v]) |-> Str(d[v][e])])])

(***************************************************************************)
(* SpecEncode: encode_dag applied to every DAG of the bounded universe.    *)
(***************************************************************************)
MaxRef == 3        \* int references are 0..MaxRef
MaxEdges == 2      \* references per vertex
MaxVertices == 2   \* vertices per DAG

Refs == {Sentinel} \cup {IntRef(i) : i \in 0..MaxRef}
Vertices == SeqsUpTo(Refs, MaxEdges)
Dags == SeqsUpTo(Vertices, MaxVertices)

NoEncoding == [set |-> FALSE, s |-> ""]

InitEncode ==
    /\ dag \in Dags
    /\ encoding = NoEncoding
    /\ PreprocessIdle /\ GroupIdle /\ SamplerIdle /\ LoaderIdle /\ LaterIdle

EncodeDag ==
    /\ ~encoding.set
    /\ encoding' = [set |-> TRUE, s |-> encode_dag(dag)]
    /\ UNCHANGED <<dag, others_of_encode>>

NextEncode == EncodeDag

SpecEncode == InitEncode /\ [][NextEncode]_vars

(***************************************************************************)
(* C5. encode_dag is injective: two DAGs with the same encoding string are *)
(* the same DAG (same vertex count, same reference lists in the same       *)
(* order).  Stated of the DAG that was encoded and every DAG of the        *)
(* universe.  The code joins without separators, so this is violated.      *)
(***************************************************************************)
C5_EncodeInjective ==
    encoding.set => \A d \in Dags : encode_dag(d) = encoding.s => d = dag

(***************************************************************************)
(* preprocess_data (data.py:167-203).  An instance is                      *)
(*   [metafeatures, pipeline |-> [steps |-> <<[name, inputs], ...>>],      *)
(*    pipeline_structure].                                                 *)
(* metafeatures is a dict {key: value} before the call, with value "num"   *)
(* (a number) or "nan" (missing), and the list of the scaled values after  *)
(* it.  train_data and test_data hold one instance each; with one training *)
(* instance np.std(values, ddof=1) is NaN for every column, so no column   *)
(* has standard deviation 0 and every scaled value is NaN.                 *)
(***************************************************************************)
\* name.replace(old, new) for one-character old and new.
Replace(name, old, new) ==
    [i \in 1..Len(name) |-> IF name[i] = old THEN new ELSE name[i]]

\* data.py:171-172, 177-178: step['name'] = step['name'].replace('.', '_')
RenameSteps(instance) ==
    [instance EXCEPT !.pipeline.steps =
        [i \in 1..Len(@) |-> [@[i] EXCEPT !.name = Replace(@, ".", "_")]]]

\* The keys of a dict, in insertion order.
Keys(dict) == [i \in 1..Len(dict) |-> dict[i].key]

\* The elements of a sequence.
Range(seq) == {seq[i] : i \in 1..Len(seq)}

\* data.py:95-97: DropMissingValues.fit appends to self.values_to_drop every
\* column of pd.DataFrame(data) that has a NaN; with one instance these are
\* the keys whose value is missing.
DropMissingValues_fit(drop, mf) ==
    drop \o Keys(SelectSeq(mf, LAMBDA e : e.val = "nan"))

\* data.py:102-105: DropMissingValues.predict pops every key of values_to_drop.
DropMissingValues_predict(drop, mf) ==
    SelectSeq(mf, LAMBDA e : e.key \notin Range(drop))

\* data.py:122-133: StandardScaler.fit; the keys of self.means and self.stds.
StandardScaler_fit(mf) == Range(Keys(mf))

\* data.py:144-145: self.stds[key] raises KeyError for a key the scaler never saw.
StandardScaler_predict_raises(fitted, mf) ==
    \E i \in 1..Len(mf) : mf[i].key \notin fitted

\* data.py:146, 194: the scaled values in the order of their keys (one key here).
ScaledValues(mf) == [i \in 1..Len(mf) |-> "nan"]

\* A mutant of PipelineDag that lets the step's name into the vertex.
PipelineDagWithNames(instance) ==
    [i \in 1..Len(instance.pipeline.steps) |->
        <<StrRef(Join(instance.pipeline.steps[i].name))>>
            \o instance.pipeline.steps[i].inputs]

\* data.py:195, 200: (step['inputs'] for step in instance['pipeline']['steps'])
PipelineDag(instance) ==
    [i \in 1..Len(instance.pipeline.steps) |-> instance.pipeline.steps[i].inputs]

\* data.py:194-196, 199-201: the instance after the "convert from dict to list" loop.
ConvertInstance(instance, mf) ==
    [instance EXCEPT
        !.metafeatures = [kind |-> "list", items |-> ScaledValues(mf)],
        !.pipeline_structure = [set |-> TRUE, s |-> encode_dag(PipelineDag(instance))]]

MaxSteps == 2      \* steps per pipeline

StepNames == {<<"p", ".", "q">>, <<"r">>}
StepInputs == {<<Sentinel>>, <<IntRef(0), IntRef(1)>>}
Steps == [name : StepNames, inputs : StepInputs]
Pipelines == [steps : SeqsUpTo(Steps, MaxSteps)]
MetafeatureDicts ==
    {<<>>, <<[key |-> "mf", val |-> "num"]>>, <<[key |-> "mf", val |-> "nan"]>>}
Instances ==
    [metafeatures : [kind : {"dict"}, items : MetafeatureDicts],
     pipeline : Pipelines,
     pipeline_structure : {NoEncoding}]

InitPreprocess ==
    /\ train_data \in [1..1 -> Instances]
    /\ test_data \in [1..1 -> Instances]
    /\ preprocess_pc = "ready"
    /\ values_to_drop = <<>>
    /\ EncodeIdle /\ GroupIdle /\ SamplerIdle /\ LoaderIdle /\ LaterIdle

\* The call up to the scaler: the renamed instances, the default list after
\* dropper.fit, the metafeature dicts after dropper.predict and the scaler's keys.
PreprocessStateOf(train_in, test_in, default) ==
    LET train == [i \in 1..Len(train_in) |-> RenameSteps(train_in[i])]
        test == [i \in 1..Len(test_in) |-> RenameSteps(test_in[i])]
        drop == DropMissingValues_fit(default, train[1].metafeatures.items)
        train_mf == [i \in 1..Len(train) |->
                        DropMissingValues_predict(drop, train[i].metafeatures.items)]
        test_mf == [i \in 1..Len(test) |->
                        DropMissingValues_predict(drop, test[i].metafeatures.items)]
    IN  [train |-> train, test |-> test, drop |-> drop,
         train_mf |-> train_mf, test_mf |-> test_mf,
         fitted |-> StandardScaler_fit(train_mf[1])]

\* The state of the call in progress.
PreprocessState == PreprocessStateOf(train_data, test_data, values_to_drop)

\* preprocess_data returns: every instance has its metafeature list and its key.
PreprocessReturns ==
    /\ preprocess_pc = "ready"
    /\ LET st == PreprocessState IN
        /\ \A i \in 1..Len(st.test) :
                ~StandardScaler_predict_raises(st.fitted, st.test_mf[i])
        /\ values_to_drop' = st.drop
        /\ train_data' = [i \in 1..Len(st.train) |->
                            ConvertInstance(st.train[i], st.train_mf[i])]
        /\ test_data' = [i \in 1..Len(st.test) |->
                            ConvertInstance(st.test[i], st.test_mf[i])]
    /\ preprocess_pc' = "returned"
    /\ UNCHANGED others_of_preprocess

\* preprocess_data raises in scaler.predict(test_metafeatures) (data.py:190):
\* the steps are renamed and the dropped keys popped, no key is assigned.
PreprocessRaises ==
    /\ preprocess_pc = "ready"
    /\ LET st == PreprocessState IN
        /\ \E i \in 1..Len(st.test) :
                StandardScaler_predict_raises(st.fitted, st.test_mf[i])
        /\ values_to_drop' = st.drop
        /\ train_data' = [i \in 1..Len(st.train) |->
                [st.train[i] EXCEPT !.metafeatures.items = st.train_mf[i]]]
        /\ test_data' = [i \in 1..Len(st.test) |->
                [st.test[i] EXCEPT !.metafeatures.items = st.test_mf[i]]]
    /\ preprocess_pc' = "KeyError"
    /\ UNCHANGED others_of_preprocess

NextPreprocess == PreprocessReturns \/ PreprocessRaises

SpecPreprocess == InitPreprocess /\ [][NextPreprocess]_vars

\* The ordered sequence of the steps' inputs lists of an instance.
InputsOf(instance) ==
    [i \in 1..Len(instance.pipeline.steps) |-> instance.pipeline.steps[i].inputs]

(***************************************************************************)
(* C6. The structure key preprocess_data assigns is a function of the      *)
(* ordered sequence of the steps' inputs lists alone: two instances with   *)
(* the same sequence of inputs lists get the same key whatever their step  *)
(* names, and an instance without steps gets the empty string.             *)
(***************************************************************************)
C6_KeyFromInputsOnly ==
    preprocess_pc = "returned" =>
        /\ \A a, b \in Range(train_data) \cup Range(test_data) :
            /\ a.pipeline_structure.set
            /\ InputsOf(a) = InputsOf(b) =>
                    a.pipeline_structure.s = b.pipeline_structure.s
        /\ \A a \in Range(train_data) \cup Range(test_data) :
            a.pipeline.steps = <<>> => a.pipeline_structure.s = ""

\* Two instances with the same inputs lists and different step names have keys.
C6_Witness ==
    /\ preprocess_pc = "returned"
    /\ InputsOf(train_data[1]) = InputsOf(test_data[1])
    /\ Len(train_data[1].pipeline.steps) = 2
    /\ \E i \in 1..2 :
        train_data[1].pipeline.steps[i].name # test_data[1].pipeline.steps[i].name
    /\ train_data[1].pipeline_structure.s = "inputs.001"

(***************************************************************************)
(* group_json_objects (data.py:16-41).  A JSON value is                    *)
(*   [kind, s, items]: kind "str" with the string s, kind "dict" with the  *)
(*   entries items (each [key, val]), or kind "num", "list", "null".       *)
(* group_key is a tuple of characters, so that split('.') is computed.     *)
(***************************************************************************)
JStr(str) == [kind |-> "str", s |-> str, items |-> <<>>]
JDict(entries) == [kind |-> "dict", s |-> "", items |-> entries]
JNum == [kind |-> "num", s |-> "", items |-> <<>>]

\* str.split(sep) for a one-character sep: the parts between the separators.
RECURSIVE Split(_, _)
Split(str, sep) ==
    IF \A i \in 1..Len(str) : str[i] # sep THEN <<str>>
    ELSE LET at == CHOOSE i \in 1..Len(str) :
                        str[i] = sep /\ \A j \in 1..(i - 1) : str[j] # sep
         IN  <<SubSeq(str, 1, at - 1)>> \o Split(SubSeq(str, at + 1, Len(str)), sep)

\* key in dict
HasKey(dict, key) == \E i \in 1..Len(dict) : dict[i].key = key

\* dict[key] for a key of the dict
Get(dict, key) == (dict[CHOOSE i \in 1..Len(dict) : dict[i].key = key]).val

\* dict with dict[key] = val: a new key is inserted last, an old one keeps its place.
Put(dict, key, val) ==
    IF HasKey(dict, key)
    THEN [i \in 1..Len(dict) |->
            IF dict[i].key = key THEN [key |-> key, val |-> val] ELSE dict[i]]
    ELSE Append(dict, [key |-> key, val |-> val])

\* A mutant of GetItem: dict.get(key_part, None)-like, a missing key yields null.
GetItemOrNone(group, key_part) ==
    IF group.kind = "dict" /\ HasKey(group.items, key_part)
    THEN [error |-> "none", value |-> Get(group.items, key_part)]
    ELSE [error |-> "none", value |-> [kind |-> "null", s |-> "", items |-> <<>>]]

\* data.py:37  group[key_part]: a dict without the key raises KeyError, a value
\* that is not a dict (str, number, list, None) raises TypeError for a str key.
GetItem(group, key_part) ==
    IF group.kind # "dict" THEN [error |-> "TypeError", value |-> group]
    ELSE IF ~HasKey(group.items, key_part) THEN [error |-> "KeyError", value |-> group]
    ELSE [error |-> "none", value |-> Get(group.items, key_part)]

\* data.py:35-37  the value at the key path of obj, or the error of the lookup.
RECURSIVE GetPath(_, _)
GetPath(group, key_parts) ==
    IF key_parts = <<>> THEN [error |-> "none", value |-> group]
    ELSE LET got == GetItem(group, Join(Head(key_parts)))
         IN  IF got.error # "none" THEN got ELSE GetPath(got.value, Tail(key_parts))

\* hash(group) does not raise: dicts and lists are unhashable (data.py:38).
Hashable(group) == group.kind \notin {"dict", "list"}

\* A mutant of AddIndex that puts the new index first in the group's list.
AddIndexFirst(grouped, group, i) ==
    Put(grouped, group, <<i>> \o (IF HasKey(grouped, group) THEN Get(grouped, group) ELSE <<>>))

\* data.py:38-40  grouped_objects[group].append(i), after creating the list.
AddIndex(grouped, group, i) ==
    Put(grouped, group, Append(IF HasKey(grouped, group) THEN Get(grouped, group) ELSE <<>>, i))

\* data.py:34-40  the loop from record number i (0-based) on.
RECURSIVE GroupLoop(_, _, _, _)
GroupLoop(objs, key_parts, i, grouped) ==
    IF i >= Len(objs) THEN [error |-> "none", value |-> grouped]
    ELSE LET got == GetPath(objs[i + 1], key_parts)
         IN  IF got.error # "none" THEN [error |-> got.error, value |-> <<>>]
             ELSE IF ~Hashable(got.value) THEN [error |-> "TypeError", value |-> <<>>]
             ELSE GroupLoop(objs, key_parts, i + 1, AddIndex(grouped, got.value, i))

\* data.py:16-41
group_json_objects(objs, key) == GroupLoop(objs, Split(key, "."), 0, <<>>)

MaxRecords == 3    \* records per call of group_json_objects

GroupValues == {"a", "b"}
PIPELINE_ID == <<"p", "i", "p", "e", "l", "i", "n", "e", ".", "i", "d">>
DATASET_ID == <<"d", "a", "t", "a", "s", "e", "t", "_", "i", "d">>
PIPELINE == <<"p", "i", "p", "e", "l", "i", "n", "e">>
GroupKeys == {PIPELINE_ID, DATASET_ID, PIPELINE}

\* Records with both fields, and records that lack a part of a key path.
JsonRecords ==
    {JDict(<<[key |-> "pipeline", val |-> JDict(<<[key |-> "id", val |-> JStr(g)]>>)],
             [key |-> "dataset_id", val |-> JStr(h)]>>) : g, h \in GroupValues}
    \cup {JDict(<<[key |-> "dataset_id", val |-> JStr(h)]>>) : h \in GroupValues}
    \cup {JDict(<<[key |-> "pipeline", val |-> JDict(<<>>)],
                  [key |-> "dataset_id", val |-> JStr("a")]>>),
          JDict(<<[key |-> "pipeline", val |-> JStr("a")],
                  [key |-> "dataset_id", val |-> JStr("a")]>>),
          JDict(<<[key |-> "pipeline", val |-> JNum]>>),
          JDict(<<[key |-> "pipeline", val |-> JDict(<<[key |-> "id", val |-> JStr("b")]>>)]>>)}

NotCalled == [set |-> FALSE, error |-> "none", value |-> <<>>]

InitGroup ==
    /\ json_objects \in SeqsUpTo(JsonRecords, MaxRecords)
    /\ group_key \in GroupKeys
    /\ grouped_objects = NotCalled
    /\ EncodeIdle /\ PreprocessIdle /\ SamplerIdle /\ LoaderIdle /\ LaterIdle

\* The call returns the grouping.
GroupReturns ==
    /\ ~grouped_objects.set
    /\ LET r == group_json_objects(json_objects, group_key) IN
        /\ r.error = "none"
        /\ grouped_objects' = [set |-> TRUE, error |-> "none", value |-> r.value]
    /\ UNCHANGED <<json_objects, group_key, others_of_group>>

\* The call raises; nothing is returned.
GroupRaises ==
    /\ ~grouped_objects.set
    /\ LET r == group_json_objects(json_objects, group_key) IN
        /\ r.error # "none"
        /\ grouped_objects' = [set |-> TRUE, error |-> r.error, value |-> <<>>]
    /\ UNCHANGED <<json_objects, group_key, others_of_group>>

NextGroup == GroupReturns \/ GroupRaises

SpecGroup == InitGroup /\ [][NextGroup]_vars

\* The records of the call as Python numbers them.
RecordIndices == 0..(Len(json_objects) - 1)

\* What the key path names in a record, read off the record's fields,
\* for each of the three key paths.
HasPathValue(obj, key) ==
    CASE key = DATASET_ID -> HasKey(obj.items, "dataset_id")
      [] key = PIPELINE -> HasKey(obj.items, "pipeline")
      [] key = PIPELINE_ID ->
            /\ HasKey(obj.items, "pipeline")
            /\ Get(obj.items, "pipeline").kind = "dict"
            /\ HasKey(Get(obj.items, "pipeline").items, "id")

PathValue(obj, key) ==
    CASE key = DATASET_ID -> Get(obj.items, "dataset_id")
      [] key = PIPELINE -> Get(obj.items, "pipeline")
      [] key = PIPELINE_ID -> Get(Get(obj.items, "pipeline").items, "id")

\* The error the lookup of the key path raises on one record, if any.
LookupError(obj, key) ==
    IF HasPathValue(obj, key)
    THEN (IF PathValue(obj, key).kind \in {"dict", "list"} THEN "TypeError" ELSE "none")
    ELSE IF key = PIPELINE_ID /\ HasKey(obj.items, "pipeline")
                /\ Get(obj.items, "pipeline").kind # "dict"
         THEN "TypeError"
         ELSE "KeyError"

StrictlyIncreasing(seq) == \A i, j \in 1..Len(seq) : i < j => seq[i] < seq[j]

(***************************************************************************)
(* C7. group_json_objects returns a stable partition of the record         *)
(* indices: every index 0..n-1 is in exactly one group's list, the list    *)
(* keyed by the value at the key path of that record, and every list is    *)
(* strictly increasing.                                                    *)
(***************************************************************************)
C7_StablePartition ==
    (grouped_objects.set /\ grouped_objects.error = "none") =>
        LET g == grouped_objects.value IN
        /\ \A k, l \in 1..Len(g) : g[k].key = g[l].key => k = l
        /\ \A k \in 1..Len(g) :
            /\ Range(g[k].val) \subseteq RecordIndices
            /\ StrictlyIncreasing(g[k].val)
        /\ \A i \in RecordIndices :
            /\ Cardinality({k \in 1..Len(g) : i \in Range(g[k].val)}) = 1
            /\ \A k \in 1..Len(g) :
                i \in Range(g[k].val) <=> g[k].key = PathValue(json_objects[i + 1], group_key)

\* Three records in two groups, the first group's records not adjacent.
C7_Witness ==
    /\ grouped_objects.set /\ grouped_objects.error = "none"
    /\ Len(grouped_objects.value) = 2
    /\ grouped_objects.value[1].val = <<0, 2>>
    /\ grouped_objects.value[2].val = <<1>>
    /\ group_key = PIPELINE_ID

\* Some record of the call lacks a component of the key path.
SomeRecordLacksPath ==
    \E i \in RecordIndices : ~HasPathValue(json_objects[i + 1], group_key)

\* The first record on which the loop of group_json_objects cannot go on.
FirstFailing ==
    CHOOSE i \in RecordIndices :
        /\ LookupError(json_objects[i + 1], group_key) # "none"
        /\ \A j \in 0..(i - 1) : LookupError(json_objects[j + 1], group_key) = "none"

(***************************************************************************)
(* C8 as stated. Whenever a record lacks a component of the key path, the  *)
(* call fails with a KeyError and returns no grouping.  Violated: a path   *)
(* that runs into a value that is not a dict raises TypeError.             *)
(***************************************************************************)
C8_KeyErrorOnMissingPath ==
    (grouped_objects.set /\ SomeRecordLacksPath) =>
        /\ grouped_objects.error = "KeyError"
        /\ grouped_objects.value = <<>>

(***************************************************************************)
(* C8 amended. Whenever a record lacks a component of the key path, the    *)
(* call raises and returns no grouping (no record is skipped or put in a   *)
(* default group); the error is that of the first record the loop fails    *)
(* on: KeyError when a dict on the path lacks the component, TypeError     *)
(* when the component is looked up in a value that is not a dict or the    *)
(* record's group value is unhashable.                                     *)
(***************************************************************************)
C8_RaisesOnMissingPath ==
    (grouped_objects.set /\ SomeRecordLacksPath) =>
        /\ grouped_objects.error \in {"KeyError", "TypeError"}
        /\ grouped_objects.error = LookupError(json_objects[FirstFailing + 1], group_key)
        /\ grouped_objects.value = <<>>

\* The third record lacks 'pipeline' and the call raised KeyError.
C8_Witness ==
    /\ grouped_objects.set /\ grouped_objects.error = "KeyError"
    /\ Len(json_objects) = 3
    /\ group_key = PIPELINE_ID
    /\ HasPathValue(json_objects[1], group_key)
    /\ HasPathValue(json_objects[2], group_key)
    /\ ~HasKey(json_objects[3].items, "pipeline")

(***************************************************************************)
(* random.Random.  The generator is a small linear congruential generator  *)
(* in place of the Mersenne Twister: a Random object is [state, draws],    *)
(* where draws counts the numbers drawn since seeding (history).  What the *)
(* model keeps of the library is that seed() fixes the state, that every   *)
(* draw is a function of the state and advances it, and the algorithms of  *)
(* shuffle and randint on top of the draws.                                *)
(***************************************************************************)
RandMod == 251
RandMul == 33
RandInc == 7

\* Random.seed(seed)
Seeded(seed) == [state |-> (RandMul * seed + RandInc) % RandMod, draws |-> 0]

\* Random._randbelow(k): a number of 0..k-1 and the generator after the draw.
Randbelow(r, k) ==
    LET next == (RandMul * r.state + RandInc) % RandMod
    IN  [value |-> next % k, random |-> [state |-> next, draws |-> r.draws + 1]]

\* x[i], x[j] = x[j], x[i]
Swap(x, i, j) == [x EXCEPT ![i] = x[j], ![j] = x[i]]

\* Random.shuffle(x): for i in reversed(range(1, len(x))): j = randbelow(i + 1);
\* x[i], x[j] = x[j], x[i].  Here from position i (1-based) down.
RECURSIVE ShuffleFrom(_, _, _)
ShuffleFrom(x, r, i) ==
    IF i < 2 THEN [list |-> x, random |-> r]
    ELSE LET d == Randbelow(r, i)
         IN  ShuffleFrom(Swap(x, i, d.value + 1), d.random, i - 1)

Shuffle(x, r) == ShuffleFrom(x, r, Len(x))

\* A mutant of NewRandom: the sampler uses the random module's own generator.
NewRandomShared(heap) == 1

\* data.py:265, 311  random.Random(): a new generator object, at a fresh address.
NewRandom(heap) == Len(heap) + 1

\* data.py:262-266  RandomSampler.__init__: the heap and the sampler after it.
RandomSampler__init__(heap, n, seed) ==
    LET addr == NewRandom(heap)
    IN  [heap |-> IF addr > Len(heap) THEN Append(heap, Seeded(seed))
                  ELSE [heap EXCEPT ![addr] = Seeded(seed)],
         sampler |-> [n |-> n, _indices |-> [i \in 1..n |-> i - 1], _random |-> addr]]

\* A mutant of RandomSampler__iter__ that shuffles on the first request only.
RandomSampler__iter__frozen(heap, sampler) ==
    IF heap[sampler._random].draws > 0 THEN [heap |-> heap, sampler |-> sampler]
    ELSE LET sh == Shuffle(sampler._indices, heap[sampler._random])
         IN  [heap |-> [heap EXCEPT ![sampler._random] = sh.random],
              sampler |-> [sampler EXCEPT !._indices = sh.list]]

\* data.py:268-270  RandomSampler.__iter__: self._indices is shuffled in place;
\* the iterator returned ranges over that same list object.
RandomSampler__iter__(heap, sampler) ==
    LET sh == Shuffle(sampler._indices, heap[sampler._random])
    IN  [heap |-> [heap EXCEPT ![sampler._random] = sh.random],
         sampler |-> [sampler EXCEPT !._indices = sh.list]]

(***************************************************************************)
(* SpecSampler: one RandomSampler(n, seed) and the iterators handed out by *)
(* its __iter__.  An iterator is [sampler, pos, yielded, done, stale]:     *)
(* it reads the sampler's list at position pos on every next(); stale is   *)
(* set when the sampler is asked for another iterator before this one is   *)
(* exhausted (history).                                                    *)
(***************************************************************************)
MaxN == 3          \* indices per sampler
MaxSeed == 3       \* seeds are 0..MaxSeed
MaxRequests == 2   \* __iter__ calls per sampler

InitSampler ==
    /\ \E n \in 0..MaxN, seed \in 0..MaxSeed, module_seed \in 0..MaxSeed :
        LET made == RandomSampler__init__(<<Seeded(module_seed)>>, n, seed)
        IN  /\ randoms = made.heap
            /\ samplers = <<made.sampler>>
    /\ sampler_iters = <<>>
    /\ permutations = <<<<>>>>
    /\ EncodeIdle /\ PreprocessIdle /\ GroupIdle /\ LoaderIdle /\ LaterIdle

\* iter(sampler): the request of sampler s; keep says whether the caller
\* holds on to the iterator.
IterSampler(s, keep) ==
    /\ Len(permutations[s]) < MaxRequests
    /\ LET after == RandomSampler__iter__(randoms, samplers[s])
       IN  /\ randoms' = after.heap
           /\ samplers' = [samplers EXCEPT ![s] = after.sampler]
           /\ permutations' =
                [permutations EXCEPT ![s] = Append(@, after.sampler._indices)]
    /\ sampler_iters' =
        LET older == [k \in 1..Len(sampler_iters) |->
                        IF sampler_iters[k].sampler = s /\ ~sampler_iters[k].done
                        THEN [sampler_iters[k] EXCEPT !.stale = TRUE]
                        ELSE sampler_iters[k]]
        IN  IF keep
            THEN Append(older, [sampler |-> s, pos |-> 0, yielded |-> <<>>,
                                done |-> FALSE, stale |-> FALSE])
            ELSE older
    /\ UNCHANGED others_of_sampler

\* next(it) yields the element at the iterator's position of the list.
IterNextYields(k) ==
    /\ k \in 1..Len(sampler_iters)
    /\ LET it == sampler_iters[k]
           list == samplers[it.sampler]._indices
       IN  /\ ~it.done
           /\ it.pos < Len(list)
           /\ sampler_iters' = [sampler_iters EXCEPT
                    ![k].pos = @ + 1,
                    ![k].yielded = Append(@, list[it.pos + 1])]
    /\ UNCHANGED <<randoms, samplers, permutations, others_of_sampler>>

\* next(it) raises StopIteration at the end of the list.
IterNextStops(k) ==
    /\ k \in 1..Len(sampler_iters)
    /\ LET it == sampler_iters[k]
       IN  /\ ~it.done
           /\ it.pos >= Len(samplers[it.sampler]._indices)
           /\ sampler_iters' = [sampler_iters EXCEPT ![k].done = TRUE]
    /\ UNCHANGED <<randoms, samplers, permutations, others_of_sampler>>

NextSampler ==
    \/ IterSampler(1, TRUE)
    \/ \E k \in 1..MaxRequests : IterNextYields(k)
    \/ \E k \in 1..MaxRequests : IterNextStops(k)

SpecSampler == InitSampler /\ [][NextSampler]_vars

\* seq holds every index of 0..n-1 exactly once.
IsPermutation(seq, n) ==
    /\ Len(seq) = n
    /\ \A v \in 0..(n - 1) : Cardinality({i \in 1..Len(seq) : seq[i] = v}) = 1

\* The numbers one shuffle of n elements draws.
DrawsPerShuffle(n) == IF n > 0 THEN n - 1 ELSE 0

(***************************************************************************)
(* C9. Every iteration request on a RandomSampler(n, seed) yields each     *)
(* index of 0..n-1 exactly once, and every request reshuffles: the order   *)
(* handed out at each request is a permutation of 0..n-1; an iterator      *)
(* consumed to its end before the sampler's next request has yielded       *)
(* every index exactly once; and every request has run one more shuffle    *)
(* on the sampler's own generator (n-1 draws each).                        *)
(***************************************************************************)
C9_PermutationPerRequest ==
    /\ \A s \in 1..Len(samplers) :
        /\ \A r \in 1..Len(permutations[s]) :
                IsPermutation(permutations[s][r], samplers[s].n)
        /\ randoms[samplers[s]._random].draws =
                Len(permutations[s]) * DrawsPerShuffle(samplers[s].n)
    /\ \A k \in 1..Len(sampler_iters) :
        (sampler_iters[k].done /\ ~sampler_iters[k].stale) =>
            IsPermutation(sampler_iters[k].yielded, samplers[sampler_iters[k].sampler].n)

\* Two requests of a sampler of three indices gave two different orders, and
\* the second iterator was consumed to its end.
C9_Witness ==
    /\ samplers[1].n = 3
    /\ Len(permutations[1]) = 2
    /\ permutations[1][1] # permutations[1][2]
    /\ Len(sampler_iters) = 2
    /\ sampler_iters[2].done /\ ~sampler_iters[2].stale
    /\ sampler_iters[2].yielded = permutations[1][2]

(***************************************************************************)
(* SpecSamplers: two RandomSamplers built with the same n and seed         *)
(* (samplers 1 and 2), a third with any n and seed, and the random         *)
(* module's own generator, used by other code.  Their __iter__ calls and   *)
(* the other draws happen in any order.                                    *)
(***************************************************************************)
MaxDraws == 2      \* draws other code takes from the random module

InitSamplers ==
    /\ \E n \in 0..MaxN, seed \in 0..MaxSeed, m \in 0..MaxN, other \in 0..MaxSeed,
          module_seed \in 0..MaxSeed :
        LET a == RandomSampler__init__(<<Seeded(module_seed)>>, n, seed)
            b == RandomSampler__init__(a.heap, n, seed)
            c == RandomSampler__init__(b.heap, m, other)
        IN  /\ randoms = c.heap
            /\ samplers = <<a.sampler, b.sampler, c.sampler>>
    /\ sampler_iters = <<>>
    /\ permutations = <<<<>>, <<>>, <<>>>>
    /\ EncodeIdle /\ PreprocessIdle /\ GroupIdle /\ LoaderIdle /\ LaterIdle

\* random.randrange(k) on the module's generator, called by other code.
ModuleDraw ==
    /\ randoms[1].draws < MaxDraws
    /\ \E k \in 2..3 : randoms' = [randoms EXCEPT ![1] = Randbelow(@, k).random]
    /\ UNCHANGED <<samplers, sampler_iters, permutations, others_of_sampler>>

NextSamplers ==
    \/ \E s \in 1..3 : IterSampler(s, FALSE)
    \/ ModuleDraw

SpecSamplers == InitSamplers /\ [][NextSamplers]_vars

(***************************************************************************)
(* C10. Two RandomSamplers built with the same seed and the same n produce *)
(* the same sequence of permutations over their successive passes, however *)
(* their requests are interleaved with each other, with the requests of    *)
(* another sampler and with other random draws.                            *)
(***************************************************************************)
C10_SameSeedSamePermutations ==
    \A r \in 1..Len(permutations[1]) :
        r <= Len(permutations[2]) => permutations[1][r] = permutations[2][r]

\* Both samplers were asked twice and reshuffled, the third sampler and the
\* module's generator were used too.
C10_Witness ==
    /\ samplers[1].n = 3
    /\ Len(permutations[1]) = 2 /\ Len(permutations[2]) = 2
    /\ permutations[2][1] # permutations[2][2]
    /\ samplers[3].n = 3 /\ Len(permutations[3]) = 2
    /\ permutations[3] # permutations[1]
    /\ randoms[1].draws = 2

(***************************************************************************)
(* GroupDataLoader (data.py:276-381).  The loader builds, per group, a     *)
(* torch.utils.data.DataLoader over the group's records; of that library   *)
(* class the model keeps the batch sampler: batches of batch_size          *)
(* consecutive indices of the sampler's order, a last shorter batch unless *)
(* drop_last, and its length.  A DataLoader is                             *)
(*   [dataset, sampler, batch_size, drop_last]                             *)
(* where dataset lists the records of the group by their index in          *)
(* self.data and sampler is the number of its RandomSampler in samplers,   *)
(* or 0 for sampler=None (sequential order).                               *)
(***************************************************************************)
\* A mutant of LenDataLoader that counts a last short batch even with drop_last.
LenDataLoaderCeil(dl) == (Len(dl.dataset) + dl.batch_size - 1) \div dl.batch_size

\* len(DataLoader): the number of batches of its batch sampler.
LenDataLoader(dl) ==
    IF dl.drop_last THEN Len(dl.dataset) \div dl.batch_size
    ELSE (Len(dl.dataset) + dl.batch_size - 1) \div dl.batch_size

\* A mutant of GroupData: the first records of self.data, whatever their group.
GroupDataFirst(group_indices) == [k \in 1..Len(group_indices) |-> k - 1]

\* data.py:328  group_data = [self.data[i] for i in group_indices]
GroupData(group_indices) == group_indices

\* data.py:350-351  self._random.randint(0, 2**32 - 1); the generator's numbers
\* are below RandMod, which 2**32 exceeds, so the bound cuts nothing.
GroupDataLoader_randint(r) == Randbelow(r, RandMod)

\* A mutant of MakeDataLoader that seeds a group's sampler with the index of
\* the group's first record instead of a draw from the loader's generator.
MakeDataLoaderSeededByGroup(dataset, with_sampler, cfg, st) ==
    LET made == RandomSampler__init__(st.heap, Len(dataset), dataset[1])
    IN  [heap |-> made.heap,
         samplers |-> Append(st.samplers, made.sampler),
         dataloader |-> [dataset |-> dataset, sampler |-> Len(st.samplers) + 1,
                         batch_size |-> cfg.batch_size, drop_last |-> cfg.drop_last]]

\* data.py:337-348 with the choice of line 337 as a parameter: st is
\* [heap, samplers]; returns them with the new DataLoader.
MakeDataLoader(dataset, with_sampler, cfg, st) ==
    IF with_sampler
    THEN LET d == GroupDataLoader_randint(st.heap[cfg.random])
             made == RandomSampler__init__(
                        [st.heap EXCEPT ![cfg.random] = d.random], Len(dataset), d.value)
         IN  [heap |-> made.heap,
              samplers |-> Append(st.samplers, made.sampler),
              dataloader |-> [dataset |-> dataset, sampler |-> Len(st.samplers) + 1,
                              batch_size |-> cfg.batch_size, drop_last |-> cfg.drop_last]]
    ELSE [heap |-> st.heap,
          samplers |-> st.samplers,
          dataloader |-> [dataset |-> dataset, sampler |-> 0,
                          batch_size |-> cfg.batch_size, drop_last |-> cfg.drop_last]]

\* A mutant of _get_data_loader that shuffles whatever self.shuffle says.
GroupDataLoader_get_data_loader_shuffling(dataset, cfg, st) ==
    MakeDataLoader(dataset, TRUE, cfg, st)

\* data.py:336-348  GroupDataLoader._get_data_loader
GroupDataLoader_get_data_loader(dataset, cfg, st) ==
    MakeDataLoader(dataset, cfg.shuffle, cfg, st)

\* data.py:327-334  the loop over grouped_data.items(), from group number k on;
\* st is [heap, samplers, dataloaders].
RECURSIVE InitDataloadersFrom(_, _, _, _)
InitDataloadersFrom(grouped, k, cfg, st) ==
    IF k > Len(grouped) THEN st
    ELSE LET made == GroupDataLoader_get_data_loader(
                        GroupData(grouped[k].val), cfg,
                        [heap |-> st.heap, samplers |-> st.samplers])
         IN  InitDataloadersFrom(grouped, k + 1, cfg,
                [heap |-> made.heap, samplers |-> made.samplers,
                 dataloaders |-> Put(st.dataloaders, grouped[k].key, made.dataloader)])

\* [group] * count
Repeat(group, count) == [i \in 1..count |-> group]

\* A mutant of GroupBatchLabels that lists every group once.
GroupBatchLabelsOnce(dataloaders) == [k \in 1..Len(dataloaders) |-> dataloaders[k].key]

\* data.py:358-361  self._group_batches before the shuffle.
RECURSIVE GroupBatchLabels(_)
GroupBatchLabels(dataloaders) ==
    IF dataloaders = <<>> THEN <<>>
    ELSE Repeat(dataloaders[1].key, LenDataLoader(dataloaders[1].val))
            \o GroupBatchLabels(Tail(dataloaders))

\* data.py:297-315  GroupDataLoader.__init__ on the heap of generators and the
\* samplers that exist: the loader, the heap and the samplers after it.
GroupDataLoader__init__(heap, smps, data, key, batch_size, drop_last, shuffle, seed) ==
    LET addr == NewRandom(heap)
        heap1 == IF addr > Len(heap) THEN Append(heap, Seeded(seed))
                 ELSE [heap EXCEPT ![addr] = Seeded(seed)]
        cfg == [random |-> addr, batch_size |-> batch_size,
                drop_last |-> drop_last, shuffle |-> shuffle]
        grouped == group_json_objects(data, key).value
        built == InitDataloadersFrom(grouped, 1, cfg,
                    [heap |-> heap1, samplers |-> smps, dataloaders |-> <<>>])
        meta == Shuffle(GroupBatchLabels(built.dataloaders), built.heap[addr])
    IN  [heap |-> [built.heap EXCEPT ![addr] = meta.random],
         samplers |-> built.samplers,
         loader |-> [data |-> data, group_key |-> key, batch_size |-> batch_size,
                     drop_last |-> drop_last, shuffle |-> shuffle, seed |-> seed,
                     _random |-> addr,
                     _group_dataloaders |-> built.dataloaders,
                     _group_batches |-> meta.list]]

(***************************************************************************)
(* SpecLoader: one GroupDataLoader, grouped by 'pipeline.id', and the      *)
(* passes over it.  A pass is the generator of _iter:                      *)
(*   [state, at, iters, out, overlapped]                                   *)
(* state is "running", "exhausted" (the generator ended), "RuntimeError"   *)
(* (it raised) or "abandoned" (the caller broke out of its loop); at is    *)
(* the number of labels of _group_batches consumed; iters is the dict      *)
(* group_dataloader_iters, each value the position [pos] of the group's    *)
(* batch iterator in its sampler's order; out lists what was yielded,      *)
(* [group, pipeline, batch] with the batch as the indices in self.data of  *)
(* its instances and the pipeline as the index in self.data of the record  *)
(* whose 'pipeline' is attached; overlapped says that another pass was in progress during     *)
(* this one (history).  A generator that has ended holds no iterators; one *)
(* that was abandoned keeps what it held.                                  *)
(***************************************************************************)
MaxData == 2          \* records in the loader's data
MaxBatchSize == 2     \* batch_size is 1..MaxBatchSize
MaxLoaderSeed == 1    \* the loader's seed is 0..MaxLoaderSeed
MaxPasses == 2        \* passes over the loader

LoaderRecords ==
    {JDict(<<[key |-> "pipeline", val |-> JDict(<<[key |-> "id", val |-> JStr(g)]>>)]>>) :
        g \in GroupValues}

InitLoader ==
    /\ \E data \in SeqsUpTo(LoaderRecords, MaxData), batch_size \in 1..MaxBatchSize,
          drop_last \in BOOLEAN, shuffle \in BOOLEAN, seed \in 0..MaxLoaderSeed :
        LET made == GroupDataLoader__init__(<<Seeded(0)>>, <<>>, data, PIPELINE_ID,
                                            batch_size, drop_last, shuffle, seed)
        IN  /\ loader = made.loader
            /\ randoms = made.heap
            /\ samplers = made.samplers
    /\ passes = <<>>
    /\ sampler_iters = Idle /\ permutations = Idle
    /\ EncodeIdle /\ PreprocessIdle /\ GroupIdle /\ LaterIdle

Min(a, b) == IF a < b THEN a ELSE b

\* A mutant of NeedNewIter: a new batch iterator for every batch.
NeedNewIterAlways(iters, group) == TRUE

\* data.py:370  if not group in group_dataloader_iters
NeedNewIter(iters, group) == ~HasKey(iters, group)

\* A mutant of NewPassIters: the group iterators are kept from the pass before.
NewPassItersKept(earlier) ==
    IF earlier = <<>> THEN <<>> ELSE earlier[Len(earlier)].iters

\* data.py:368  group_dataloader_iters = {}, a local of each generator.
NewPassIters(earlier) == <<>>

\* data.py:364-365  iter(loader): a new generator; its body has not run yet.
StartPass ==
    /\ Len(passes) < MaxPasses
    /\ LET busy == \E q \in 1..Len(passes) : passes[q].state = "running"
       IN  passes' =
            Append([q \in 1..Len(passes) |->
                        IF passes[q].state = "running"
                        THEN [passes[q] EXCEPT !.overlapped = TRUE] ELSE passes[q]],
                   [state |-> "running", at |-> 0, iters |-> NewPassIters(passes),
                    out |-> <<>>,
                    overlapped |-> busy])
    /\ UNCHANGED <<loader, randoms, samplers, others_of_loader>>

\* A mutant of GroupPipeline: the pipeline of the group's last record.
GroupPipelineLast(dl) == dl.dataset[Len(dl.dataset)]

\* data.py:375  self._group_dataloaders[group].dataset.data[0]["pipeline"],
\* as the index in self.data of the record it is read from.
GroupPipeline(dl) == dl.dataset[1]

\* data.py:419-426  RNNDataLoader.pipeline_structures: per group, the inputs
\* of the steps of data[group_indices[0]], as that record's index in data.
RNNDataLoader_pipeline_structures(data, key) ==
    LET grouped_by_structure == group_json_objects(data, key).value
    IN  [k \in 1..Len(grouped_by_structure) |->
            [key |-> grouped_by_structure[k].key, val |-> grouped_by_structure[k].val[1]]]

\* data.py:369-377  next(generator) while labels are left: one turn of the loop
\* up to the yield.  A new batch iterator asks the group's sampler for its
\* order (RandomSampler.__iter__ shuffles in place); the batch is read from
\* the sampler's list as it is now.
NextBatch(p) ==
    /\ p \in 1..Len(passes)
    /\ passes[p].state = "running"
    /\ passes[p].at < Len(loader._group_batches)
    /\ LET pass == passes[p]
           group == loader._group_batches[pass.at + 1]
           dl == Get(loader._group_dataloaders, group)
           n == Len(dl.dataset)
           fresh == NeedNewIter(pass.iters, group)
           asked == IF fresh /\ dl.sampler # 0
                    THEN RandomSampler__iter__(randoms, samplers[dl.sampler])
                    ELSE [heap |-> randoms, sampler |-> Idle]
           smps == IF fresh /\ dl.sampler # 0
                   THEN [samplers EXCEPT ![dl.sampler] = asked.sampler]
                   ELSE samplers
           order == IF dl.sampler = 0 THEN [i \in 1..n |-> i - 1]
                    ELSE smps[dl.sampler]._indices
           pos == IF fresh THEN 0 ELSE Get(pass.iters, group).pos
           taken == SubSeq(order, pos + 1, Min(pos + dl.batch_size, n))
           yields == Len(taken) = dl.batch_size \/ (Len(taken) > 0 /\ ~dl.drop_last)
       IN  /\ randoms' = asked.heap
           /\ samplers' = smps
           /\ passes' = [passes EXCEPT ![p] =
                IF yields
                THEN [pass EXCEPT
                        !.at = @ + 1,
                        !.iters = Put(@, group, [pos |-> pos + Len(taken)]),
                        !.out = Append(@, [group |-> group,
                                           pipeline |-> GroupPipeline(dl),
                                           batch |-> [k \in 1..Len(taken) |->
                                                        dl.dataset[taken[k] + 1]]])]
                \* next(group iterator) raised StopIteration inside the generator
                ELSE [pass EXCEPT !.state = "RuntimeError", !.iters = <<>>]]
    /\ UNCHANGED <<loader, others_of_loader>>

\* data.py:378  raise StopIteration() after the last label.  On Python before
\* 3.7 this ends the generator (with a DeprecationWarning from 3.5 on) ...
PassEndsExhausted(p) ==
    /\ p \in 1..Len(passes)
    /\ passes[p].state = "running"
    /\ passes[p].at = Len(loader._group_batches)
    /\ passes' = [passes EXCEPT ![p].state = "exhausted", ![p].iters = <<>>]
    /\ UNCHANGED <<loader, randoms, samplers, others_of_loader>>

\* ... and from Python 3.7 on (PEP 479) it reaches the caller of next() as
\* RuntimeError('generator raised StopIteration').
PassEndsRuntimeError(p) ==
    /\ p \in 1..Len(passes)
    /\ passes[p].state = "running"
    /\ passes[p].at = Len(loader._group_batches)
    /\ passes' = [passes EXCEPT ![p].state = "RuntimeError", ![p].iters = <<>>]
    /\ UNCHANGED <<loader, randoms, samplers, others_of_loader>>

\* The caller breaks out of its loop over the loader; the generator is
\* dropped with the group iterators it holds and is never resumed.
AbandonPass(p) ==
    /\ p \in 1..Len(passes)
    /\ passes[p].state = "running"
    /\ passes[p].at < Len(loader._group_batches)
    /\ passes' = [passes EXCEPT ![p].state = "abandoned"]
    /\ UNCHANGED <<loader, randoms, samplers, others_of_loader>>

NextLoader ==
    \/ StartPass
    \/ \E p \in 1..MaxPasses : NextBatch(p)
    \/ \E p \in 1..MaxPasses : PassEndsExhausted(p)
    \/ \E p \in 1..MaxPasses : PassEndsRuntimeError(p)
    \/ \E p \in 1..MaxPasses : AbandonPass(p)

SpecLoader == InitLoader /\ [][NextLoader]_vars

(***************************************************************************)
(* Properties of the loader and its passes.                                *)
(***************************************************************************)
\* data.py:380-381  GroupDataLoader.__len__
GroupDataLoader__len__(l) == Len(l._group_batches)

\* A full pass: the loop of _iter has yielded a batch for every label.
FullPass(p) ==
    /\ p \in 1..Len(passes)
    /\ passes[p].state \in {"exhausted", "RuntimeError"}
    /\ passes[p].at = GroupDataLoader__len__(loader)

\* The group labels the loader's records can carry.
GroupLabels == {JStr(g) : g \in GroupValues}

\* The indices in self.data of the records of a group, read off the records.
GroupIndexSet(group) ==
    {i \in 0..(Len(loader.data) - 1) : PathValue(loader.data[i + 1], PIPELINE_ID) = group}

\* The indices a pass has yielded for a group, in the order of yielding.
RECURSIVE YieldedFor(_, _)
YieldedFor(out, group) ==
    IF out = <<>> THEN <<>>
    ELSE (IF out[1].group = group THEN out[1].batch ELSE <<>>) \o YieldedFor(Tail(out), group)

\* floor(a / b) and ceil(a / b) for a >= 0 and b >= 1, by their defining inequalities.
Floor(a, b) == CHOOSE q \in 0..a : q * b <= a /\ a < (q + 1) * b
Ceil(a, b) == CHOOSE q \in 0..a : (q - 1) * b < a /\ a <= q * b

RECURSIVE SumOver(_, _)
SumOver(S, f) ==
    IF S = {} THEN 0
    ELSE LET x == CHOOSE y \in S : TRUE IN f[x] + SumOver(S \ {x}, f)

\* C1 as stated: two full passes over the same loader, neither overlapping
\* another pass, yield the same sequence of (group label, batch): the same
\* label and the same instances in the same positions at every batch
\* position, shuffle enabled or not.
C1_IdenticalPasses ==
    \A p, q \in 1..Len(passes) :
        (FullPass(p) /\ FullPass(q) /\ ~passes[p].overlapped /\ ~passes[q].overlapped)
            => passes[p].out = passes[q].out

\* C1 amended: two full passes over the same loader yield the same group
\* label and a batch of the same size at every batch position; with shuffle
\* disabled they also yield the same instances in the same positions.
C1_SameScheduleEachPass ==
    \A p, q \in 1..Len(passes) :
        (FullPass(p) /\ FullPass(q)) =>
            /\ Len(passes[p].out) = Len(passes[q].out)
            /\ \A k \in 1..Len(passes[p].out) :
                /\ passes[p].out[k].group = passes[q].out[k].group
                /\ Len(passes[p].out[k].batch) = Len(passes[q].out[k].batch)
            /\ (~loader.shuffle => passes[p].out = passes[q].out)

\* Two full passes of at least two batches over a loader that does not shuffle.
C1_Witness ==
    /\ Len(passes) = 2 /\ FullPass(1) /\ FullPass(2)
    /\ ~loader.shuffle
    /\ Len(passes[1].out) >= 2
    /\ passes[1].out = passes[2].out

\* C2: in one full pass (with no other pass over a shuffling loader in
\* progress during it), for every group the indices in the group's batches
\* have no duplicates and all belong to the group, and they are all of the
\* group's indices, less those of a last undersized batch when drop_last
\* is enabled.
C2_CoverageWithoutDuplicates ==
    \A p \in 1..Len(passes) :
        (FullPass(p) /\ ~(passes[p].overlapped /\ loader.shuffle)) =>
            \A group \in GroupLabels :
                LET yielded == YieldedFor(passes[p].out, group)
                    n == Cardinality(GroupIndexSet(group))
                IN  /\ Cardinality(Range(yielded)) = Len(yielded)
                    /\ Range(yielded) \subseteq GroupIndexSet(group)
                    /\ Len(yielded) = IF loader.drop_last
                                      THEN Floor(n, loader.batch_size) * loader.batch_size
                                      ELSE n

\* A full pass over a shuffling loader that yielded a group of two instances
\* in two batches.
C2_Witness ==
    \E group \in GroupLabels :
        /\ FullPass(1) /\ ~passes[1].overlapped
        /\ loader.shuffle
        /\ Cardinality(GroupIndexSet(group)) = 2
        /\ loader.batch_size = 1
        /\ Len(YieldedFor(passes[1].out, group)) = 2

\* C3: len(loader) is the sum over the groups of floor(group size /
\* batch_size) when drop_last is enabled and of ceil(group size /
\* batch_size) otherwise.
C3_LengthLaw ==
    loader # Idle =>
        GroupDataLoader__len__(loader) =
            SumOver(GroupLabels,
                    [group \in GroupLabels |->
                        IF loader.drop_last
                        THEN Floor(Cardinality(GroupIndexSet(group)), loader.batch_size)
                        ELSE Ceil(Cardinality(GroupIndexSet(group)), loader.batch_size)])

\* A loader over two groups of one instance each with batch_size 2 that
\* keeps undersized batches: floor and ceil differ for both groups.
C3_Witness ==
    /\ loader # Idle
    /\ ~loader.drop_last /\ loader.batch_size = 2
    /\ \A group \in GroupLabels : Cardinality(GroupIndexSet(group)) = 1
    /\ GroupDataLoader__len__(loader) = 2

\* C4: every instance of a yielded batch has, at the group_key path, the
\* group label yielded with the batch.
C4_BatchFromOneGroup ==
    \A p \in 1..Len(passes) : \A k \in 1..Len(passes[p].out) :
        \A j \in 1..Len(passes[p].out[k].batch) :
            PathValue(loader.data[passes[p].out[k].batch[j] + 1], loader.group_key)
                = passes[p].out[k].group

\* A pass over data of two groups that has yielded a batch of each.
C4_Witness ==
    \E p \in 1..Len(passes) :
        \A group \in GroupLabels :
            /\ GroupIndexSet(group) # {}
            /\ \E k \in 1..Len(passes[p].out) :
                /\ passes[p].out[k].group = group
                /\ passes[p].out[k].batch # <<>>

(***************************************************************************)
(* SpecLoaderPair: two shuffling GroupDataLoaders built one after the      *)
(* other with the same seed from the same records, the second given the    *)
(* records in another order; then the samplers of their groups are asked   *)
(* for their orders, in any interleaving.  batch_size and drop_last do not *)
(* enter the construction of the samplers (data.py:337-338) and are fixed. *)
(***************************************************************************)
MaxPairData == 4      \* records given to each loader of the pair

\* The orders in which k records can be supplied.
Orders(k) == {f \in [1..k -> 1..k] : \A i, j \in 1..k : f[i] = f[j] => i = j}

InitLoaderPair ==
    /\ \E k \in 0..MaxPairData, seed \in 0..MaxLoaderSeed :
        \E data \in [1..k -> LoaderRecords], order \in Orders(k) :
            LET first == GroupDataLoader__init__(<<Seeded(0)>>, <<>>, data, PIPELINE_ID,
                                                 1, FALSE, TRUE, seed)
                second == GroupDataLoader__init__(first.heap, first.samplers,
                                                  [i \in 1..k |-> data[order[i]]],
                                                  PIPELINE_ID, 1, FALSE, TRUE, seed)
            IN  /\ loaders = <<first.loader, second.loader>>
                /\ randoms = second.heap
                /\ samplers = second.samplers
                /\ permutations = [s \in 1..Len(second.samplers) |-> <<>>]
    /\ sampler_iters = <<>>
    /\ EncodeIdle /\ PreprocessIdle /\ GroupIdle /\ LoaderIdle /\ DnaIdle /\ PredictIdle
    /\ RestIdle

NextLoaderPair ==
    \E s \in 1..(2 * Cardinality(GroupValues)) :
        s <= Len(samplers) /\ IterSampler(s, FALSE)

SpecLoaderPair == InitLoaderPair /\ [][NextLoaderPair]_vars

\* Two samplers have the same sub-seed and the same shuffles: their
\* generators are in the same state while neither has drawn, and their
\* successive orders are equal when they hold equally many indices.
SameShuffles(s1, s2) ==
    /\ (randoms[samplers[s1]._random].draws = 0 /\ randoms[samplers[s2]._random].draws = 0)
            => randoms[samplers[s1]._random].state = randoms[samplers[s2]._random].state
    /\ samplers[s1].n = samplers[s2].n =>
            \A r \in 1..Len(permutations[s1]) :
                r <= Len(permutations[s2]) => permutations[s1][r] = permutations[s2][r]

\* C11 as stated: in two loaders built with the same seed from the same
\* records, in whatever order the records are supplied, every group has the
\* same sub-seed and the same internal shuffles in both loaders.
C11_SubSeedByGroupIdentity ==
    \A group \in GroupLabels :
        (HasKey(loaders[1]._group_dataloaders, group)
            /\ HasKey(loaders[2]._group_dataloaders, group)) =>
            SameShuffles(Get(loaders[1]._group_dataloaders, group).sampler,
                         Get(loaders[2]._group_dataloaders, group).sampler)

\* C11 amended: the sub-seed of a group is that of its position in the
\* enumeration of the groups: the k-th enumerated groups of the two loaders
\* have the same sub-seed and, when equally large, the same shuffles.
C11_SubSeedByEnumerationPosition ==
    /\ Len(loaders[1]._group_dataloaders) = Len(loaders[2]._group_dataloaders)
    /\ \A k \in 1..Len(loaders[1]._group_dataloaders) :
            SameShuffles(loaders[1]._group_dataloaders[k].val.sampler,
                         loaders[2]._group_dataloaders[k].val.sampler)

\* The loaders enumerate two groups of two records in opposite orders, and
\* the samplers of their first groups were asked twice and reshuffled.
C11_Witness ==
    /\ Len(loaders[1]._group_dataloaders) = 2
    /\ loaders[1]._group_dataloaders[1].key = loaders[2]._group_dataloaders[2].key
    /\ LET s1 == loaders[1]._group_dataloaders[1].val.sampler
           s2 == loaders[2]._group_dataloaders[1].val.sampler
       IN  /\ samplers[s1].n = 2 /\ samplers[s2].n = 2
           /\ Len(permutations[s1]) = 2 /\ Len(permutations[s2]) = 2
           /\ permutations[s1][1] # permutations[s1][2]

(***************************************************************************)
(* SpecLoaderPass: one pass over one GroupDataLoader built from more       *)
(* records than SpecLoader's, so that a group without batches, a group of  *)
(* several batches and a short last batch occur in the same loader.        *)
(***************************************************************************)
MaxPassData == 4      \* records in the data of the loader of the single pass

InitLoaderPass ==
    /\ \E data \in SeqsUpTo(LoaderRecords, MaxPassData), batch_size \in 1..MaxBatchSize,
          drop_last \in BOOLEAN, shuffle \in BOOLEAN, seed \in 0..MaxLoaderSeed :
        LET made == GroupDataLoader__init__(<<Seeded(0)>>, <<>>, data, PIPELINE_ID,
                                            batch_size, drop_last, shuffle, seed)
        IN  /\ loader = made.loader
            /\ randoms = made.heap
            /\ samplers = made.samplers
    /\ passes = <<>>
    /\ sampler_iters = Idle /\ permutations = Idle
    /\ EncodeIdle /\ PreprocessIdle /\ GroupIdle /\ LaterIdle

\* iter(loader), once.
StartOnlyPass == passes = <<>> /\ StartPass

NextLoaderPass ==
    \/ StartOnlyPass
    \/ NextBatch(1)
    \/ PassEndsExhausted(1)
    \/ PassEndsRuntimeError(1)
    \/ AbandonPass(1)

SpecLoaderPass == InitLoaderPass /\ [][NextLoaderPass]_vars

\* The groups of the data that have no batch: fewer records than batch_size,
\* with drop_last enabled.
ZeroBatchGroups ==
    {group \in GroupLabels :
        /\ GroupIndexSet(group) # {}
        /\ loader.drop_last
        /\ Cardinality(GroupIndexSet(group)) < loader.batch_size}

\* C12: a group that has no batch is not a label of the loader's schedule
\* and not the label of a yielded batch, and the pass raises no error at
\* any batch: an error, if any, is that of the end of the pass.
C12_ZeroBatchGroupAbsent ==
    loader # Idle =>
        \A group \in ZeroBatchGroups :
            /\ group \notin Range(loader._group_batches)
            /\ \A p \in 1..Len(passes) :
                /\ \A k \in 1..Len(passes[p].out) : passes[p].out[k].group # group
                /\ passes[p].state = "RuntimeError"
                        => passes[p].at = GroupDataLoader__len__(loader)

\* A loader with a group that has no batch and another group that has one,
\* after a pass that yielded every batch of the schedule.
C12_Witness ==
    /\ ZeroBatchGroups # {}
    /\ GroupDataLoader__len__(loader) >= 1
    /\ FullPass(1)
    /\ Len(passes[1].out) = GroupDataLoader__len__(loader)

\* The batches of a group among what a pass yielded.
BatchesOf(out, group) == Cardinality({k \in 1..Len(out) : out[k].group = group})

\* C13: a pass that has gone through the whole schedule has yielded exactly
\* len(loader) batches, of every group as many as the group's DataLoader
\* has, and ends as an exhausted sequence: no pass raises an error to the
\* loop that consumes it.
C13_FullPassEndsNormally ==
    \A p \in 1..Len(passes) :
        /\ passes[p].state # "RuntimeError"
        /\ passes[p].state = "exhausted" =>
            /\ Len(passes[p].out) = GroupDataLoader__len__(loader)
            /\ \A k \in 1..Len(loader._group_dataloaders) :
                BatchesOf(passes[p].out, loader._group_dataloaders[k].key)
                    = LenDataLoader(loader._group_dataloaders[k].val)

\* The smallest index in self.data of the records of a group.
FirstIndexOf(group) ==
    CHOOSE i \in GroupIndexSet(group) : \A j \in GroupIndexSet(group) : i <= j

\* C14: the pipeline yielded with every batch of a group, in every pass, is
\* that of the group's record with the smallest index in the data, and the
\* structure an RNNDataLoader keeps for the group is that record's too.
C14_PipelineOfFirstInstance ==
    loader # Idle =>
        /\ \A p \in 1..Len(passes) : \A k \in 1..Len(passes[p].out) :
                passes[p].out[k].pipeline = FirstIndexOf(passes[p].out[k].group)
        /\ LET pipeline_structures ==
                    RNNDataLoader_pipeline_structures(loader.data, loader.group_key)
           IN  \A group \in GroupLabels :
                    GroupIndexSet(group) # {} =>
                        /\ HasKey(pipeline_structures, group)
                        /\ Get(pipeline_structures, group) = FirstIndexOf(group)

\* A pass yielded two batches of a group whose first record is not the
\* first record of the data, the second batch without that first record.
C14_Witness ==
    \E p \in 1..Len(passes) : \E k1, k2 \in 1..Len(passes[p].out) :
        /\ k1 < k2
        /\ passes[p].out[k1].group = passes[p].out[k2].group
        /\ passes[p].out[k2].pipeline > 0
        /\ passes[p].out[k2].pipeline \notin Range(passes[p].out[k2].batch)

\* C20: a pass started after an earlier pass was broken off, and not
\* interleaved with another pass over a shuffling loader, is not stopped by
\* an error before the end of the schedule, and once it has gone through the
\* schedule it has yielded len(loader) batches that cover every group
\* without duplicates (less a last undersized batch with drop_last).
C20_FullPassAfterBreak ==
    \A q \in 1..Len(passes) :
        ((\E p \in 1..(q - 1) : passes[p].state = "abandoned")
            /\ ~(passes[q].overlapped /\ loader.shuffle)) =>
            /\ passes[q].state = "RuntimeError"
                    => passes[q].at = GroupDataLoader__len__(loader)
            /\ FullPass(q) =>
                /\ Len(passes[q].out) = GroupDataLoader__len__(loader)
                /\ \A group \in GroupLabels :
                    LET yielded == YieldedFor(passes[q].out, group)
                        n == Cardinality(GroupIndexSet(group))
                    IN  /\ Cardinality(Range(yielded)) = Len(yielded)
                        /\ Range(yielded) \subseteq GroupIndexSet(group)
                        /\ Len(yielded) = IF loader.drop_last
                                          THEN Floor(n, loader.batch_size) * loader.batch_size
                                          ELSE n

\* The first pass over a shuffling loader was broken off after one of the
\* two batches of a group; the second pass went through the whole schedule.
C20_Witness ==
    /\ Len(passes) = 2
    /\ loader.shuffle
    /\ passes[1].state = "abandoned"
    /\ Len(passes[1].out) = 1
    /\ Cardinality({k \in 1..Len(loader._group_batches) :
                        loader._group_batches[k] = passes[1].out[1].group}) = 2
    /\ ~passes[2].overlapped
    /\ FullPass(2)

(***************************************************************************)
(* The DAG evaluation of models.py:479-505                                 *)
(* (DNASiameseModule.recursive_get_output).  Tensors are terms:            *)
(*   H1                 self.h1, the encoding of the external features     *)
(*   Unit(name, x)      self.f_activation(self.submodules[name](x))        *)
(*   Cat(<<x1, ...>>)   torch.cat((x1, ...), dim=1)                        *)
(* A call returns [outcome, cause, value, applied]: outcome is "returned", *)
(* "SystemExit" (quit(1) was called; SystemExit is no Exception, so no     *)
(* enclosing handler of the recursion catches it) or the name of the       *)
(* exception that leaves the call; cause is the first error raised;        *)
(* applied lists the nodes whose unit was applied, in order.               *)
(***************************************************************************)
MaxNodes == 3         \* steps per pipeline

H1 == [op |-> "h1", name |-> "", args |-> <<>>]
Unit(name, x) == [op |-> "unit", name |-> name, args |-> <<x>>]
Cat(outputs) == [op |-> "cat", name |-> "", args |-> outputs]

\* The depth of calls at which Python raises RecursionError: deeper than any
\* chain of references without a cycle.
RecursionLimit == MaxNodes + 1

Returned(value, applied) ==
    [outcome |-> "returned", cause |-> "none", value |-> value, applied |-> applied]
\* models.py:502-505  the handler: it prints the error and
\* pipeline[current_index], then calls quit(1).  The second print raises
\* the error again when current_index does not index the pipeline.
Handled(cause, index_valid) ==
    [outcome |-> IF index_valid THEN "SystemExit" ELSE cause,
     cause |-> cause, value |-> Idle, applied |-> <<>>]

\* A mutant of CombineOutputs that concatenates in reverse order.
CombineOutputsReversed(outputs) ==
    IF Len(outputs) > 1
    THEN Cat([k \in 1..Len(outputs) |-> outputs[Len(outputs) + 1 - k]])
    ELSE outputs[Len(outputs)]

\* models.py:495-498  the input of the unit: the concatenation of the
\* outputs when there are several, else curr_output, the last output.
CombineOutputs(outputs) ==
    IF Len(outputs) > 1 THEN Cat(outputs) ELSE outputs[Len(outputs)]

RECURSIVE recursive_get_output(_, _, _, _)
RECURSIVE GetOutputs(_, _, _, _, _, _)

\* models.py:490-493  the loop over pipeline[current_index]["inputs"] from
\* input number k on; acc is [outputs, applied].
GetOutputs(submodules, pipeline, inputs, k, depth, acc) ==
    IF k > Len(inputs) THEN Returned(acc.outputs, acc.applied)
    ELSE LET got == recursive_get_output(submodules, pipeline, inputs[k], depth + 1)
         IN  IF got.outcome # "returned" THEN got
             ELSE GetOutputs(submodules, pipeline, inputs, k + 1, depth,
                    [outputs |-> Append(acc.outputs, got.value),
                     applied |-> acc.applied \o got.applied])

\* models.py:479-505  recursive_get_output(pipeline, current_index) at the
\* given depth of calls; current_index is a reference as found in an inputs
\* list (or the int len(pipeline) - 1 of the first call).
recursive_get_output(submodules, pipeline, current_index, depth) ==
    LET index_valid == current_index.kind = "int" /\ current_index.n < Len(pipeline)
                            /\ current_index.n >= -Len(pipeline)
    IN  IF depth > RecursionLimit THEN Handled("RecursionError", index_valid)
        ELSE IF current_index.kind # "int" THEN Handled("TypeError", FALSE)
        ELSE IF ~index_valid THEN Handled("IndexError", FALSE)
        ELSE LET step == pipeline[current_index.n + 1]
             IN  IF step.name \notin submodules THEN Handled("KeyError", TRUE)
                 ELSE IF Sentinel \in Range(step.inputs)
                 THEN Returned(Unit(step.name, H1), <<current_index.n>>)
                 ELSE LET got == GetOutputs(submodules, pipeline, step.inputs, 1, depth,
                                            [outputs |-> <<>>, applied |-> <<>>])
                      IN  IF got.outcome = "SystemExit" THEN got
                          ELSE IF got.outcome # "returned" THEN Handled(got.cause, TRUE)
                          ELSE IF got.value = <<>> THEN Handled("UnboundLocalError", TRUE)
                          ELSE Returned(Unit(step.name, CombineOutputs(got.value)),
                                        Append(got.applied, current_index.n))

\* models.py:474  self.recursive_get_output(pipeline, len(pipeline) - 1)
Forward(submodules, pipeline) ==
    recursive_get_output(submodules, pipeline, IntRef(Len(pipeline) - 1), 1)

(***************************************************************************)
(* SpecDna: a DAG regression model is fitted on training pipelines and     *)
(* then predicts on a batch of another pipeline.  fit builds the module    *)
(* with one unit per primitive name of the training data                   *)
(* (dna_regression_model.py:26-37) and evaluates the training batches; a   *)
(* prediction evaluates the batch's pipeline.  dna_model is                *)
(*   [reduction_name, has_model, submodule_input_sizes, fitted]            *)
(* with has_model for self._model is not None; forwards lists              *)
(* [phase, pipeline, result] for every forward evaluation.                 *)
(***************************************************************************)
PrimitiveNames == {"p", "q"}
ReductionNames == {"concat", "max"}

\* The inputs lists of a step: the external features, one or several earlier
\* steps in either order, a reference that is the step itself, a later step
\* or no step (depending on where it stands), and a malformed reference.
DnaInputs ==
    {<<Sentinel>>, <<IntRef(0)>>, <<IntRef(0), IntRef(1)>>, <<IntRef(1), IntRef(0)>>,
     <<IntRef(MaxNodes - 1)>>, <<StrRef("inputs.1")>>}
DnaSteps == [name : PrimitiveNames, inputs : DnaInputs]
DnaPipelines == SeqsUpTo(DnaSteps, MaxNodes)

\* Training data: pipelines in topological order whose first step reads the
\* external features.
DnaTrainSets ==
    {<< <<[name |-> "p", inputs |-> <<Sentinel>>]>> >>,
     << <<[name |-> "q", inputs |-> <<Sentinel>>]>> >>,
     << <<[name |-> "p", inputs |-> <<Sentinel>>]>>,
        <<[name |-> "q", inputs |-> <<Sentinel>>],
          [name |-> "p", inputs |-> <<IntRef(0)>>],
          [name |-> "q", inputs |-> <<IntRef(0), IntRef(1)>>]>> >>}

\* dna_regression_model.py:30  len(step['inputs']) if concat else 1
InputSize(reduction_name, step) ==
    IF reduction_name = "concat" THEN Len(step.inputs) ELSE 1

\* dna_regression_model.py:29-30  the loop over the steps of one instance.
RECURSIVE RegisterSteps(_, _, _)
RegisterSteps(reduction_name, steps, sizes) ==
    IF steps = <<>> THEN sizes
    ELSE RegisterSteps(reduction_name, Tail(steps),
                       Put(sizes, Head(steps).name, InputSize(reduction_name, Head(steps))))

\* dna_regression_model.py:27-30  submodule_input_sizes of _get_model.
RECURSIVE DNARegressionModel_get_model(_, _, _)
DNARegressionModel_get_model(reduction_name, instances, sizes) ==
    IF instances = <<>> THEN sizes
    ELSE DNARegressionModel_get_model(reduction_name, Tail(instances),
                                      RegisterSteps(reduction_name, Head(instances), sizes))

\* The names that have a unit in the module.
Submodules == Range(Keys(dna_model.submodule_input_sizes))

InitDna ==
    /\ dna_train \in DnaTrainSets
    /\ dna_test \in DnaPipelines
    /\ \E reduction_name \in ReductionNames :
        dna_model = [reduction_name |-> reduction_name, has_model |-> FALSE,
                     submodule_input_sizes |-> <<>>, fitted |-> FALSE]
    /\ dna_pc = "constructed"
    /\ forwards = <<>>
    /\ EncodeIdle /\ PreprocessIdle /\ GroupIdle /\ SamplerIdle /\ LoaderIdle /\ PairIdle
    /\ PredictIdle /\ RestIdle

\* The state after a forward evaluation of the given phase.
AfterForward(phase, pipeline, next_pc) ==
    LET result == Forward(Submodules, pipeline)
    IN  /\ forwards' = Append(forwards, [phase |-> phase, pipeline |-> pipeline,
                                         result |-> result])
        /\ dna_pc' = CASE result.outcome = "returned" -> next_pc
                       [] result.outcome = "SystemExit" -> "exited"
                       [] OTHER -> "raised"

\* models.py:73  fit: self._model = self._get_model(train_data)
FitGetModel ==
    /\ dna_pc = "constructed"
    /\ dna_model' = [dna_model EXCEPT
            !.has_model = TRUE,
            !.submodule_input_sizes =
                DNARegressionModel_get_model(dna_model.reduction_name, dna_train, <<>>)]
    /\ dna_pc' = "training"
    /\ UNCHANGED <<dna_train, dna_test, forwards>>
    /\ UNCHANGED <<vars_encode, vars_preprocess, vars_group, vars_sampler, vars_loader,
                   vars_pair, vars_predict, vars_rest>>

\* models.py:149-150  _train_epoch: model(x_batch) on the next training batch.
FitForward ==
    /\ dna_pc = "training"
    /\ Len(forwards) < Len(dna_train)
    /\ AfterForward("train", dna_train[Len(forwards) + 1], "training")
    /\ UNCHANGED <<dna_train, dna_test, dna_model>>
    /\ UNCHANGED <<vars_encode, vars_preprocess, vars_group, vars_sampler, vars_loader,
                   vars_pair, vars_predict, vars_rest>>

\* models.py:124  fit: self.fitted = True after the epochs.
FitReturns ==
    /\ dna_pc = "training"
    /\ Len(forwards) = Len(dna_train)
    /\ dna_model' = [dna_model EXCEPT !.fitted = TRUE]
    /\ dna_pc' = "fitted"
    /\ UNCHANGED <<dna_train, dna_test, forwards>>
    /\ UNCHANGED <<vars_encode, vars_preprocess, vars_group, vars_sampler, vars_loader,
                   vars_pair, vars_predict, vars_rest>>

\* models.py:218-223, 170-171  predict_regression: model(x_batch) on a batch
\* of the data to predict.
PredictForward ==
    /\ dna_pc = "fitted"
    /\ AfterForward("predict", dna_test, "predicted")
    /\ UNCHANGED <<dna_train, dna_test, dna_model>>
    /\ UNCHANGED <<vars_encode, vars_preprocess, vars_group, vars_sampler, vars_loader,
                   vars_pair, vars_predict, vars_rest>>

NextDna == FitGetModel \/ FitForward \/ FitReturns \/ PredictForward

SpecDna == InitDna /\ [][NextDna]_vars

\* How many times the unit of a node was applied in a forward evaluation.
TimesApplied(applied, node) == Cardinality({k \in 1..Len(applied) : applied[k] = node})

\* C15: in a forward evaluation that returns, the unit of every node is
\* applied at most once, however many later nodes refer to the node.
C15_NodeAppliedAtMostOnce ==
    \A f \in 1..Len(forwards) :
        forwards[f].result.outcome = "returned" =>
            \A node \in 0..(Len(forwards[f].pipeline) - 1) :
                TimesApplied(forwards[f].result.applied, node) <= 1

\* The rule of evaluation as a property of a value: t is the value of node
\* n of the pipeline when it is the node's unit applied to H1 (the inputs
\* contain the external features), to a value of its one dependency, or to
\* the concatenation, in inputs order, of values of its several dependencies.
RECURSIVE FollowsRule(_, _, _)
FollowsRule(pipeline, n, t) ==
    LET step == pipeline[n + 1]
    IN  /\ t.op = "unit" /\ t.name = step.name /\ Len(t.args) = 1
        /\ IF Sentinel \in Range(step.inputs) THEN t.args[1] = H1
           ELSE IF Len(step.inputs) = 1
           THEN FollowsRule(pipeline, step.inputs[1].n, t.args[1])
           ELSE /\ t.args[1].op = "cat"
                /\ Len(t.args[1].args) = Len(step.inputs)
                /\ \A k \in 1..Len(step.inputs) :
                        FollowsRule(pipeline, step.inputs[k].n, t.args[1].args[k])

\* The inputs lists of the three-node pipeline of the example.
ChainInputs == <<<<Sentinel>>, <<IntRef(0)>>, <<IntRef(0), IntRef(1)>>>>

C17_UnknownPrimitiveNotFoundMidBatch ==
    \A f \in 1..Len(forwards) : forwards[f].result.cause # "KeyError"

\* C18: an error raised inside the traversal leaves the forward evaluation
\* as that error, raised to the caller; the evaluation never ends the
\* process.
C18_TraversalErrorPropagates ==
    \A f \in 1..Len(forwards) :
        forwards[f].result.cause # "none" =>
            /\ forwards[f].result.outcome = forwards[f].result.cause
            /\ dna_pc # "exited"


-----------------------------------------------------------------------------
\* Prediction before and after fit (dna/models/models.py).

MaxPredictData == 2
MaxPredictCalls == 2

\* The classes that implement fit.  "PyTorch" stands for the subclasses of
\* PyTorchRegressionRankSubsetModelBase, "SklearnBase" for its two subclasses.
ModelClasses ==
    {"PyTorch", "MeanBaseline", "MedianBaseline", "PerPrimitiveBaseline", "SklearnBase",
     "AutoSklearnMetalearner"}

\* The predict methods each class defines.
PredictMethods(class) ==
    IF class \in {"MeanBaseline", "MedianBaseline"}
    THEN {"predict_regression"}
    ELSE {"predict_regression", "predict_rank", "predict_subset"}

\* What one call ends with, and whether it read any of its data before that.
Outcome(outcome, data_read) == [outcome |-> outcome, data_read |-> data_read]

\* A query of self._knd (dna/kND.py).  After fit it returns.  Before fit the
\* nearest-neighbour structure holds no runs: the call either fails inside
\* KNearestDatasets or returns, and either way the data was read first.
KndQuery(model) ==
    IF model.learned
    THEN {Outcome("returned", TRUE)}
    ELSE {Outcome("KNearestDatasets error", TRUE), Outcome("returned", TRUE)}

\* AutoSklearnMetalearner._predict: builds a DataFrame of the data and takes the
\* metafeatures of its first row, which an empty frame does not have.
AutoSklearnMetalearner_predict(model, n) ==
    IF n = 0 THEN {Outcome("KeyError", TRUE)} ELSE KndQuery(model)

\* AutoSklearnMetalearner.predict_regression: one query per instance, none for
\* empty data.
AutoSklearnMetalearner_predict_regression(model, n) ==
    IF n = 0 THEN {Outcome("returned", FALSE)} ELSE KndQuery(model)

\* The possible outcomes of model.method(data) with len(data) = n.
Predict(model, method, n) ==
    CASE model.class = "PyTorch" ->
           IF ~model.learned
           THEN {Outcome("Exception('model not fit')", FALSE)}
           ELSE {Outcome("returned", n > 0)}
      [] model.class \in {"MeanBaseline", "MedianBaseline"} ->
           IF ~model.learned
           THEN {Outcome("ModelNotFitError", FALSE)}
           ELSE {Outcome("returned", FALSE)}
      [] model.class = "PerPrimitiveBaseline" ->
           IF method = "predict_subset"
           THEN IF ~model.fitted
                THEN {Outcome("Exception('model not fit')", FALSE)}
                ELSE {Outcome("returned", n > 0)}
           ELSE IF ~model.learned
                THEN {Outcome("ModelNotFitError", FALSE)}
                ELSE {Outcome("returned", n > 0)}
      [] model.class = "SklearnBase" ->
           IF ~model.fitted
           THEN {Outcome(IF method = "predict_subset"
                         THEN "Exception('model not fit')"
                         ELSE "ModelNotFitError", FALSE)}
           ELSE {Outcome("returned", n > 0)}
      [] model.class = "AutoSklearnMetalearner" ->
           IF method = "predict_regression"
           THEN AutoSklearnMetalearner_predict_regression(model, n)
           ELSE AutoSklearnMetalearner_predict(model, n)

\* A freshly constructed model of any class.
InitPredict ==
    /\ model_obj \in {[class |-> c, fitted |-> FALSE, learned |-> FALSE] : c \in ModelClasses}
    /\ predict_calls = <<>>
    /\ EncodeIdle /\ PreprocessIdle /\ GroupIdle /\ SamplerIdle /\ LoaderIdle /\ PairIdle
    /\ DnaIdle /\ RestIdle

others_of_predict ==
    <<vars_encode, vars_preprocess, vars_group, vars_sampler, vars_loader, vars_pair, vars_dna,
      vars_rest>>

\* fit: sets the learned state of the class and self.fitted.
ModelFit ==
    /\ ~model_obj.learned
    /\ model_obj' = [model_obj EXCEPT !.fitted = TRUE, !.learned = TRUE]
    /\ UNCHANGED <<predict_calls, others_of_predict>>

\* One call of a predict method on data of n instances.
PredictCall(method) ==
    /\ Len(predict_calls) < MaxPredictCalls
    /\ method \in PredictMethods(model_obj.class)
    /\ \E n \in 0..MaxPredictData :
         \E o \in Predict(model_obj, method, n) :
            predict_calls' = Append(predict_calls,
                [method |-> method, n |-> n, before |-> model_obj, after |-> model_obj,
                 outcome |-> o.outcome, data_read |-> o.data_read])
    /\ UNCHANGED <<model_obj, others_of_predict>>

predict_regression == PredictCall("predict_regression")
predict_rank == PredictCall("predict_rank")
predict_subset == PredictCall("predict_subset")

NextPredict == ModelFit \/ predict_regression \/ predict_rank \/ predict_subset

SpecPredict == InitPredict /\ [][NextPredict]_vars

NotFitOutcomes == {"ModelNotFitError", "Exception('model not fit')"}

\* C19: every predict_regression, predict_rank or predict_subset call made on a
\* model before any fit raised a model-not-fit error, before reading any of its
\* data, and left the model as it was.
C19_PredictBeforeFitRaisesNotFit ==
    \A c \in 1..Len(predict_calls) :
        ~predict_calls[c].before.learned =>
            /\ predict_calls[c].outcome \in NotFitOutcomes
            /\ ~predict_calls[c].data_read
            /\ predict_calls[c].after = predict_calls[c].before


-----------------------------------------------------------------------------
(***************************************************************************)
(* split_data (data.py:44-62).  The records of train_data and test_data    *)
(* are the objects of data themselves; the model returns each list as the  *)
(* indices in data (0-based) of its records, in order.                     *)
(***************************************************************************)
MaxSplitData == 3     \* records given to split_data
MaxTestSize == 3      \* test_size is -1..MaxTestSize
MaxSplitSeed == 1     \* seed is 0..MaxSplitSeed

\* The bound of list[t:] and list[:t] for a list of n items: a negative t
\* counts from the end, and both ends are clipped.
SliceBound(n, t) ==
    IF t < 0 THEN (IF t + n < 0 THEN 0 ELSE t + n)
    ELSE IF t > n THEN n ELSE t

\* A mutant of SliceFrom that starts one item later.
SliceFromNext(list, t) == SubSeq(list, SliceBound(Len(list), t) + 2, Len(list))

\* list[t:]
SliceFrom(list, t) == SubSeq(list, SliceBound(Len(list), t) + 1, Len(list))

\* list[:t]
SliceTo(list, t) == SubSeq(list, 1, SliceBound(Len(list), t))

\* data.py:53-56, 58-61  the indices of the records of the groups, group by group.
RECURSIVE RecordsOfGroups(_, _)
RecordsOfGroups(grouped_data_indices, groups) ==
    IF groups = <<>> THEN <<>>
    ELSE Get(grouped_data_indices, Head(groups))
            \o RecordsOfGroups(grouped_data_indices, Tail(groups))

\* data.py:44-62
split_data(data, group_by_key, test_size, seed) ==
    LET r == group_json_objects(data, group_by_key)
        grouped_data_indices == r.value
        keys == [k \in 1..Len(grouped_data_indices) |-> grouped_data_indices[k].key]
        groups == Shuffle(keys, Seeded(seed)).list
    IN  IF r.error # "none"
        THEN [error |-> r.error, groups |-> <<>>, train_data |-> <<>>, test_data |-> <<>>]
        ELSE [error |-> "none",
              groups |-> groups,
              train_data |-> RecordsOfGroups(grouped_data_indices, SliceFrom(groups, test_size)),
              test_data |-> RecordsOfGroups(grouped_data_indices, SliceTo(groups, test_size))]

SplitGroupValues == {"a", "b", "c"}
SplitRecords == {JDict(<<[key |-> "dataset_id", val |-> JStr(g)]>>) : g \in SplitGroupValues}

InitSplit ==
    /\ split_args \in [data : SeqsUpTo(SplitRecords, MaxSplitData),
                       group_by_key : {DATASET_ID},
                       test_size : -1..MaxTestSize,
                       seed : 0..MaxSplitSeed]
    /\ split_calls = <<>>
    /\ SplitAlone

\* One call of split_data with the arguments; the caller keeps what it returned.
SplitData ==
    /\ Len(split_calls) < 2
    /\ split_calls' = Append(split_calls,
            split_data(split_args.data, split_args.group_by_key,
                       split_args.test_size, split_args.seed))
    /\ UNCHANGED <<split_args, others_of_split>>

NextSplit == SplitData

SpecSplit == InitSplit /\ [][NextSplit]_vars

\* The group value of the record at index i of the data.
SplitGroupOf(i) == GetPath(split_args.data[i + 1], Split(split_args.group_by_key, ".")).value

\* The group values of the records of a list of indices.
SplitGroupsIn(indices) == {SplitGroupOf(indices[k]) : k \in 1..Len(indices)}

\* C26: split_data partitions the records by whole groups: every record is in
\* exactly one of train_data and test_data, no group value occurs in both,
\* for test_size >= 0 test_data holds the records of exactly
\* min(test_size, number of groups) groups, and a second call with the same
\* arguments returns the same.
C26_SplitByWholeGroups ==
    \A c \in 1..Len(split_calls) :
        LET r == split_calls[c]
            both == r.train_data \o r.test_data
            n == Len(split_args.data)
        IN  /\ r.error = "none"
            /\ Len(both) = n
            /\ \A i \in 0..(n - 1) : \E k \in 1..Len(both) : both[k] = i
            /\ SplitGroupsIn(r.train_data) \cap SplitGroupsIn(r.test_data) = {}
            /\ split_args.test_size >= 0 =>
                  Cardinality(SplitGroupsIn(r.test_data))
                      = Min(split_args.test_size, Len(r.groups))
            /\ r = split_calls[1]

\* Two calls were made on records of three groups, one group went to test_data.
C26_Witness ==
    /\ Len(split_calls) = 2
    /\ Len(split_calls[1].groups) = 3
    /\ split_args.test_size = 1
    /\ split_calls[1].test_data # <<>>
    /\ Len(split_calls[1].train_data) = 2


-----------------------------------------------------------------------------
(***************************************************************************)
(* SpecRuns: two evaluation runs in one process with the same arguments.   *)
(* Each run constructs a DNARegressionModel with the seed and fits it on   *)
(* the training data (models.py:69-124): the training loader is built,     *)
(* then every epoch makes one pass over it in _train_epoch and one in      *)
(* _predict_epoch.  The passes are the generators of SpecLoader, here one  *)
(* after the other.  A run is recorded as the batches of each of its       *)
(* passes and the way fit ended.  The Python build (whether PEP 479 is in  *)
(* force) is a property of the process and the same for both runs.         *)
(***************************************************************************)
MaxRunData == 4       \* records of the training data of a run

\* A mutant of the loader construction: the seed also depends on how many
\* generators the process has created so far.
DNARegressionModel_get_data_loader_counting(heap, smps, data, batch_size, drop_last, shuffle, seed) ==
    GroupDataLoader__init__(heap, smps, data, PIPELINE_ID, batch_size, drop_last, shuffle,
                            seed + 2 + Len(heap))

\* dna_regression_model.py:42-57  GroupDataLoader(..., group_key='pipeline.id',
\* seed=self.seed + 2)
DNARegressionModel_get_data_loader(heap, smps, data, batch_size, drop_last, shuffle, seed) ==
    GroupDataLoader__init__(heap, smps, data, PIPELINE_ID, batch_size, drop_last, shuffle,
                            seed + 2)

InitRuns ==
    /\ run_args \in [train_data : SeqsUpTo(LoaderRecords, MaxRunData) \ {<<>>},
                     batch_size : 1..MaxBatchSize,
                     drop_last : BOOLEAN,
                     seed : 0..MaxLoaderSeed,
                     n_epochs : 0..(MaxPasses \div 2),
                     pep479 : BOOLEAN]
    /\ run_pc = "constructed"
    /\ runs = <<>>
    /\ randoms = <<Seeded(0)>>
    /\ samplers = <<>>
    /\ loader = <<>>
    /\ passes = <<>>
    /\ RunsAlone

\* models.py:78  train_data_loader = self._get_data_loader(train_data,
\* batch_size, drop_last, shuffle=True), of a model constructed for this run.
RunGetDataLoader ==
    /\ run_pc = "constructed"
    /\ Len(runs) < 2
    /\ LET made == DNARegressionModel_get_data_loader(randoms, samplers,
                        run_args.train_data, run_args.batch_size, run_args.drop_last,
                        TRUE, run_args.seed)
       IN  /\ loader' = made.loader
           /\ randoms' = made.heap
           /\ samplers' = made.samplers
    /\ passes' = <<>>
    /\ run_pc' = "fitting"
    /\ UNCHANGED <<run_args, runs, others_of_runs>>

\* The passes of the run so far have all ended normally.
PassesExhausted == \A p \in 1..Len(passes) : passes[p].state = "exhausted"

\* models.py:143, 170  for x_batch, y_batch in data_loader: the next pass of
\* the fit begins (two per epoch).
RunStartPass ==
    /\ run_pc = "fitting"
    /\ PassesExhausted
    /\ Len(passes) < 2 * run_args.n_epochs
    /\ StartPass

\* The loop asks the generator for its next batch.
RunNextBatch ==
    /\ run_pc = "fitting"
    /\ NextBatch(Len(passes))

\* The generator ends as the process's Python build makes it end.
RunPassEnds ==
    /\ run_pc = "fitting"
    /\ IF run_args.pep479 THEN PassEndsRuntimeError(Len(passes))
       ELSE PassEndsExhausted(Len(passes))

\* How fit has ended, or "running".  Without epochs the loop body never
\* binds save_model, which line 121 reads.
RunOutcome ==
    IF \E p \in 1..Len(passes) : passes[p].state = "RuntimeError" THEN "RuntimeError"
    ELSE IF run_args.n_epochs = 0 THEN "UnboundLocalError"
    ELSE IF Len(passes) = 2 * run_args.n_epochs /\ PassesExhausted THEN "returned"
    ELSE "running"

\* fit returns or raises; the run is over and the next one can begin.
RunEnds ==
    /\ run_pc = "fitting"
    /\ RunOutcome # "running"
    /\ runs' = Append(runs, [batches |-> [p \in 1..Len(passes) |-> passes[p].out],
                             outcome |-> RunOutcome])
    /\ run_pc' = IF Len(runs) = 1 THEN "done" ELSE "constructed"
    /\ UNCHANGED <<run_args, loader, passes, randoms, samplers, others_of_runs>>

NextRuns == RunGetDataLoader \/ RunStartPass \/ RunNextBatch \/ RunPassEnds \/ RunEnds

SpecRuns == InitRuns /\ [][NextRuns]_vars

C22_InputSizeMatchesEveryStep ==
    dna_model.has_model =>
        \A i \in 1..Len(dna_train) : \A k \in 1..Len(dna_train[i]) :
            LET step == dna_train[i][k]
                size == Get(dna_model.submodule_input_sizes, step.name)
            IN  IF dna_model.reduction_name = "concat"
                THEN size = Len(step.inputs)
                ELSE size = 1


-----------------------------------------------------------------------------
(***************************************************************************)
(* predict_subset(data, k) of a fitted model (models.py:238-244, 593-599,  *)
(* 620-622, 660-666, 778-782).  data is given by the pipeline_id of its    *)
(* instances, which are distinct (the instances of one dataset).  The      *)
(* ranks that predict_rank computes from the model's predictions are an    *)
(* input: any numbers 0..n-1, ties included.                               *)
(***************************************************************************)
MaxSubsetData == 3    \* instances in data
MaxK == 3             \* k is 1..MaxK

PipelineIds == {"a", "b", "c"}

\* The classes by their predict_subset: the PyTorch models,
\* PerPrimitiveBaseline and SklearnBase share the ranked one.
SubsetClasses == {"ranked", "RandomBaseline", "AutoSklearnMetalearner"}

\* Sequences without repetition.
Distinct(seq) == \A i, j \in 1..Len(seq) : seq[i] = seq[j] => i = j

\* The positions 1..n ordered by rank, equal ranks in their order of
\* appearance: the row order of DataFrame.nsmallest (keep='first').
RECURSIVE SortByRank(_, _)
SortByRank(ranks, left) ==
    IF left = {} THEN <<>>
    ELSE LET least == CHOOSE i \in left :
                        \A j \in left : ranks[i] < ranks[j] \/ (ranks[i] = ranks[j] /\ i <= j)
         IN  <<least>> \o SortByRank(ranks, left \ {least})

\* pd.DataFrame(ranked_data).nsmallest(k, columns='rank')['pipeline_id'].tolist()
nsmallest(ids, ranks, k) ==
    LET order == SortByRank(ranks, 1..Len(ids))
    IN  [p \in 1..Min(k, Len(ids)) |-> ids[order[p]]]

\* models.py:621-622  RandomState.choice(data, k): k draws from data, each
\* from all of it (replace=True is numpy's default); ValueError for empty data.
RandomBaseline_predict_subset(ids, k) ==
    IF ids = <<>> THEN {[error |-> "ValueError", value |-> <<>>]}
    ELSE {[error |-> "none", value |-> [p \in 1..k |-> ids[draw[p]]]] :
            draw \in [1..k -> 1..Len(ids)]}

\* list.remove(x) for an x of the list: its first occurrence goes.
RECURSIVE Remove(_, _)
Remove(list, x) ==
    IF Head(list) = x THEN Tail(list) ELSE <<Head(list)>> \o Remove(Tail(list), x)

\* models.py:761-762  every suggested id that was not queried is removed once.
RECURSIVE RemoveUnqueried(_, _)
RemoveUnqueried(predicted_pipelines, unqueried) ==
    IF unqueried = {} THEN predicted_pipelines
    ELSE LET x == CHOOSE y \in unqueried : TRUE
         IN  RemoveUnqueried(Remove(predicted_pipelines, x), unqueried \ {x})

\* models.py:747-764 with method 'k': the suggestions of self._knd (at most k
\* distinct ids of the pipelines it was fitted on) without the unqueried ones.
AutoSklearnMetalearner_predict_subset(ids, k) ==
    {[error |-> "none",
      value |-> RemoveUnqueried(suggested, Range(suggested) \ Range(ids))] :
        suggested \in {q \in SeqsUpTo(PipelineIds, k) : Distinct(q)}}

\* The possible results of model.predict_subset(data, k).
predict_subset_of(class, ids, ranks, k) ==
    CASE class = "ranked" -> {[error |-> "none", value |-> nsmallest(ids, ranks, k)]}
      [] class = "RandomBaseline" -> RandomBaseline_predict_subset(ids, k)
      [] class = "AutoSklearnMetalearner" -> AutoSklearnMetalearner_predict_subset(ids, k)

InitSubset ==
    /\ \E ids \in {q \in SeqsUpTo(PipelineIds, MaxSubsetData) : Distinct(q)} :
        subset_args \in [class : SubsetClasses, ids : {ids},
                         ranks : [1..Len(ids) -> 0..(Len(ids) - 1)],
                         k : 1..MaxK]
    /\ subset_result = [set |-> FALSE, error |-> "none", value |-> <<>>]
    /\ SubsetAlone

\* The call is made.
PredictSubset ==
    /\ ~subset_result.set
    /\ \E r \in predict_subset_of(subset_args.class, subset_args.ids,
                                  subset_args.ranks, subset_args.k) :
        subset_result' = [set |-> TRUE, error |-> r.error, value |-> r.value]
    /\ UNCHANGED <<subset_args, others_of_subset>>

NextSubset == PredictSubset

SpecSubset == InitSubset /\ [][NextSubset]_vars

\* C23: predict_subset(data, k) recommends at most k pipelines, each the
\* pipeline_id of an instance of data, none twice; a ranked model recommends
\* ids whose ranks are the k smallest.
C23_SubsetOfAtMostKDistinct ==
    (subset_result.set /\ subset_result.error = "none") =>
        LET value == subset_result.value
            ids == subset_args.ids
            chosen == {i \in 1..Len(ids) : \E p \in 1..Len(value) : value[p] = ids[i]}
        IN  /\ Len(value) <= subset_args.k
            /\ Range(value) \subseteq Range(ids)
            /\ Distinct(value)
            /\ subset_args.class = "ranked" =>
                  /\ Len(value) = Min(subset_args.k, Len(ids))
                  /\ \A i \in chosen : \A j \in (1..Len(ids)) \ chosen :
                        subset_args.ranks[i] <= subset_args.ranks[j]


-----------------------------------------------------------------------------
(***************************************************************************)
(* PyTorchModelBase.fit with an output_dir (models.py:69-124).  The loss   *)
(* score that decides the checkpoint (the validation loss if there is      *)
(* validation data, else the training loss) is an input, one per epoch.    *)
(* Parameters and checkpoints are named by where they come from:           *)
(*   [by, epoch]: by "init" (the new model of line 73), "this fit" (after  *)
(*   the training of that epoch), "earlier fit" (a model.pt the directory  *)
(*   held before this fit), "nobody" (no file).                            *)
(***************************************************************************)
MaxEpochs == 3        \* n_epochs is 0..MaxEpochs
MaxLoss == 2          \* finite loss scores are 0..MaxLoss

\* np.inf
Infinity == MaxLoss + 1

Origin(by, epoch) == [by |-> by, epoch |-> epoch]

InitFit ==
    /\ \E n_epochs \in 0..MaxEpochs :
        fit_args \in [n_epochs : {n_epochs},
                      losses : [1..n_epochs -> 0..Infinity],
                      pep479 : BOOLEAN]
    /\ \E file \in {Origin("nobody", 0), Origin("earlier fit", 0)} :
        fit_state = [pc |-> "epochs", e |-> 0, params |-> Origin("init", 0),
                     min_loss_score |-> Infinity, save_model |-> "unbound",
                     file |-> file, loaded |-> Origin("nobody", 0), fitted |-> FALSE]
    /\ FitAlone

\* models.py:108, 112  validation_loss_score < min_loss_score
SaveModel(loss, min_loss_score) == loss < min_loss_score

\* models.py:85-118  one turn of the loop over the epochs.  _train_epoch
\* iterates the loader to its end, which on a PEP 479 build raises.
FitEpoch ==
    /\ fit_state.pc = "epochs"
    /\ fit_state.e < fit_args.n_epochs
    /\ LET e == fit_state.e
           loss == fit_args.losses[e + 1]
           save_model == SaveModel(loss, fit_state.min_loss_score)
       IN  fit_state' =
            IF fit_args.pep479
            THEN [fit_state EXCEPT !.pc = "RuntimeError", !.params = Origin("this fit", e),
                                   !.save_model = "False"]
            ELSE [fit_state EXCEPT
                    !.e = e + 1,
                    !.params = Origin("this fit", e),
                    !.min_loss_score = IF save_model THEN loss ELSE @,
                    !.save_model = IF save_model THEN "True" ELSE "False",
                    !.file = IF save_model THEN Origin("this fit", e) ELSE @]
    /\ UNCHANGED <<fit_args, others_of_fit>>

\* models.py:121-124  after the loop: the checkpoint is loaded unless the
\* final epoch saved one; reading save_model raises if no epoch bound it,
\* and torch.load raises if there is no file.
FitEnds ==
    /\ fit_state.pc = "epochs"
    /\ fit_state.e = fit_args.n_epochs
    /\ fit_state' =
        CASE fit_state.save_model = "unbound" ->
                [fit_state EXCEPT !.pc = "UnboundLocalError"]
          [] fit_state.save_model = "True" ->
                [fit_state EXCEPT !.pc = "returned", !.fitted = TRUE]
          [] fit_state.save_model = "False" ->
                IF fit_state.file.by = "nobody"
                THEN [fit_state EXCEPT !.pc = "FileNotFoundError"]
                ELSE [fit_state EXCEPT !.pc = "returned", !.fitted = TRUE,
                                       !.params = fit_state.file,
                                       !.loaded = fit_state.file]
    /\ UNCHANGED <<fit_args, others_of_fit>>

NextFit == FitEpoch \/ FitEnds

SpecFit == InitFit /\ [][NextFit]_vars

\* The earliest epoch (0-based) whose loss score is the minimum.
EarliestBest ==
    CHOOSE e \in 0..(fit_args.n_epochs - 1) :
        /\ \A f \in 0..(fit_args.n_epochs - 1) : fit_args.losses[e + 1] <= fit_args.losses[f + 1]
        /\ \A f \in 0..(e - 1) : fit_args.losses[f + 1] > fit_args.losses[e + 1]

\* C24: for any n_epochs >= 0 and any loss scores, fit returns with fitted =
\* True and with the parameters checkpointed at the earliest epoch of minimum
\* loss; a checkpoint is loaded only if this fit saved one before.
C24_FitReturnsBestCheckpoint ==
    fit_state.pc # "epochs" =>
        /\ fit_state.pc = "returned"
        /\ fit_state.fitted
        /\ fit_args.n_epochs > 0 => fit_state.params = Origin("this fit", EarliestBest)
        /\ fit_state.loaded.by \in {"nobody", "this fit"}


-----------------------------------------------------------------------------
(***************************************************************************)
(* ProblemBase.fit and fit_predict (problems.py:26-67) on one model        *)
(* object, call after call.  The model is                                  *)
(*   [class, fitted, fits, version]                                        *)
(* with fits the number of times its fit method was invoked and version    *)
(* the number of times it returned (its learned state).  The classes are   *)
(* told apart by where they set self.fitted: at the end of fit (the        *)
(* PyTorch models through PyTorchModelBase.fit and the baselines), in its  *)
(* first statement (ProbabilisticMatrixFactorization), or in the           *)
(* constructor (RandomBaseline, whose fit does nothing).  A model's fit    *)
(* may raise instead of returning.                                         *)
(***************************************************************************)
MaxProblemCalls == 3  \* fit_predict calls on the model

FittedSetAt == {"end of fit", "start of fit", "constructor"}

NoCall == [pc |-> "none"]

InitProblem ==
    /\ \E class \in FittedSetAt :
        problem_model = [class |-> class, fitted |-> class = "constructor",
                         fits |-> 0, version |-> 0]
    /\ problem_call = NoCall
    /\ problem_calls = <<>>
    /\ ProblemAlone

\* A mutant of NeedsFit that fits only on request.
NeedsFitOnRefitOnly(model, refit_model) == refit_model

\* problems.py:35  if not model.fitted or refit_model
NeedsFit(model, refit_model) == ~model.fitted \/ refit_model

\* problems.py:56-59  fit_predict is called and enters self.fit.
ProblemFitPredict ==
    /\ problem_call = NoCall
    /\ Len(problem_calls) < MaxProblemCalls
    /\ \E refit_model \in BOOLEAN :
        problem_call' = [pc |-> "fit", refit_model |-> refit_model,
                         before |-> problem_model, invoked |-> 0, fit_time |-> "None"]
    /\ UNCHANGED <<problem_model, problem_calls, others_of_problem>>

\* problems.py:34-41  the model is fitted and no refit is asked: fit_time
\* stays None.
ProblemFitSkips ==
    /\ problem_call.pc = "fit"
    /\ ~NeedsFit(problem_model, problem_call.refit_model)
    /\ problem_call' = [pc |-> "predict", refit_model |-> problem_call.refit_model,
                        before |-> problem_call.before, invoked |-> problem_call.invoked,
                        fit_time |-> "None", after_fit |-> problem_model]
    /\ UNCHANGED <<problem_model, problem_calls, others_of_problem>>

\* problems.py:36-39  model.fit(...) is invoked; models.py:893 sets fitted in
\* the first statement of ProbabilisticMatrixFactorization.fit.
ProblemFitInvokes ==
    /\ problem_call.pc = "fit"
    /\ NeedsFit(problem_model, problem_call.refit_model)
    /\ problem_model' = [problem_model EXCEPT
            !.fits = @ + 1,
            !.fitted = @ \/ problem_model.class = "start of fit"]
    /\ problem_call' = [problem_call EXCEPT !.pc = "model.fit", !.invoked = @ + 1]
    /\ UNCHANGED <<problem_calls, others_of_problem>>

\* The model's fit returns: self.fitted = True is its last statement
\* (models.py:124, 519, 535, 569, 639, 801) or was set before.
ModelFitReturns ==
    /\ problem_call.pc = "model.fit"
    /\ problem_model' = [problem_model EXCEPT !.fitted = TRUE, !.version = @ + 1]
    /\ problem_call' = [pc |-> "predict", refit_model |-> problem_call.refit_model,
                        before |-> problem_call.before, invoked |-> problem_call.invoked,
                        fit_time |-> "measured", after_fit |-> problem_model']
    /\ UNCHANGED <<problem_calls, others_of_problem>>

\* The model's fit raises: the exception leaves fit and fit_predict, and no
\* prediction is made.
ModelFitRaises ==
    /\ problem_call.pc = "model.fit"
    /\ problem_model.class # "constructor"
    /\ problem_calls' = Append(problem_calls,
            [refit_model |-> problem_call.refit_model, before |-> problem_call.before,
             invoked |-> problem_call.invoked, fit_time |-> "raised",
             after_fit |-> problem_model, predicted |-> FALSE, fitted_at_predict |-> FALSE])
    /\ problem_call' = NoCall
    /\ UNCHANGED <<problem_model, others_of_problem>>

\* problems.py:61-63  self.predict(train_data, model, ...)
ProblemPredict ==
    /\ problem_call.pc = "predict"
    /\ problem_calls' = Append(problem_calls,
            [refit_model |-> problem_call.refit_model, before |-> problem_call.before,
             invoked |-> problem_call.invoked, fit_time |-> problem_call.fit_time,
             after_fit |-> problem_call.after_fit, predicted |-> TRUE,
             fitted_at_predict |-> problem_model.fitted])
    /\ problem_call' = NoCall
    /\ UNCHANGED <<problem_model, others_of_problem>>

NextProblem ==
    \/ ProblemFitPredict \/ ProblemFitSkips \/ ProblemFitInvokes
    \/ ModelFitReturns \/ ModelFitRaises \/ ProblemPredict

SpecProblem == InitProblem /\ [][NextProblem]_vars

\* C25: ProblemBase.fit invokes the model's fit exactly once if model.fitted
\* is false or refit_model is true; otherwise it does not invoke it, leaves
\* the model unchanged and returns fit_time = None; and fit_predict never asks
\* a model to predict while its fitted flag is false.
C25_FitOnceThenPredictFitted ==
    \A c \in 1..Len(problem_calls) :
        LET call == problem_calls[c]
        IN  /\ (~call.before.fitted \/ call.refit_model) => call.invoked = 1
            /\ (call.before.fitted /\ ~call.refit_model) =>
                  /\ call.invoked = 0
                  /\ call.after_fit = call.before
                  /\ call.fit_time = "None"
            /\ call.predicted => call.fitted_at_predict

\* A call fitted an unfitted model and predicted, and a later call found it
\* fitted, skipped the fit and predicted.
C25_Witness ==
    /\ Len(problem_calls) >= 2
    /\ ~problem_calls[1].before.fitted /\ problem_calls[1].invoked = 1
    /\ problem_calls[1].predicted
    /\ ~problem_calls[2].refit_model /\ problem_calls[2].invoked = 0
    /\ problem_calls[2].predicted


-----------------------------------------------------------------------------
(***************************************************************************)
(* SpecRnn: an RNNDataLoader (data.py:412-441) over instances grouped by   *)
(* the 'pipeline_structure' key that preprocess_data assigned them         *)
(* (data.py:193-201), and one pass over it.  The loader sees of every      *)
(* instance its key; rnn_data keeps the instances with their steps.        *)
(***************************************************************************)
MaxRnnData == 3       \* instances in the data of the RNNDataLoader

PIPELINE_STRUCTURE ==
    <<"p", "i", "p", "e", "l", "i", "n", "e", "_",
      "s", "t", "r", "u", "c", "t", "u", "r", "e">>

\* The inputs lists of the pipelines: topologically ordered DAGs whose
\* source step reads the external features.
RnnDags ==
    {<< <<Sentinel>> >>,
     << <<Sentinel>>, <<IntRef(0)>> >>,
     << <<Sentinel>>, <<IntRef(0)>>, <<IntRef(0), IntRef(1)>> >>,
     << <<Sentinel>>, <<IntRef(0)>>, <<IntRef(0)>>, <<IntRef(1)>> >>}

RnnInstances ==
    {[pipeline |-> [steps |-> [i \in 1..Len(d) |-> [name |-> <<"r">>, inputs |-> d[i]]]]] :
        d \in RnnDags}

\* data.py:195-196  instance['pipeline_structure'] = encode_dag(pipeline_dag),
\* as the record the loader groups.
WithStructureKey(instance) ==
    JDict(<<[key |-> "pipeline_structure", val |-> JStr(encode_dag(PipelineDag(instance)))]>>)

InitRnn ==
    /\ rnn_data \in SeqsUpTo(RnnInstances, MaxRnnData)
    /\ \E batch_size \in 1..MaxBatchSize, drop_last \in BOOLEAN, shuffle \in BOOLEAN,
          seed \in 0..MaxLoaderSeed :
        LET made == GroupDataLoader__init__(<<Seeded(0)>>, <<>>,
                        [i \in 1..Len(rnn_data) |-> WithStructureKey(rnn_data[i])],
                        PIPELINE_STRUCTURE, batch_size, drop_last, shuffle, seed)
        IN  /\ loader = made.loader
            /\ randoms = made.heap
            /\ samplers = made.samplers
    /\ passes = <<>>
    /\ RnnAlone

SpecRnn == InitRnn /\ [][NextLoaderPass]_vars

\* data.py:437  group_structure = self.pipeline_structures[group]: the inputs
\* lists of the instance the structure of the group was read from.
GroupStructure(group) ==
    InputsOf(rnn_data[Get(RNNDataLoader_pipeline_structures(loader.data, loader.group_key),
                          group) + 1])

\* C27: every instance of a yielded batch has the ordered list of step-input
\* lists that is yielded with the batch as group_structure.
C27_BatchMatchesGroupStructure ==
    \A p \in 1..Len(passes) : \A b \in 1..Len(passes[p].out) :
        LET yielded == passes[p].out[b]
        IN  \A k \in 1..Len(yielded.batch) :
                InputsOf(rnn_data[yielded.batch[k] + 1]) = GroupStructure(yielded.group)


-----------------------------------------------------------------------------
(***************************************************************************)
(* SpecPreprocessAgain: two preprocess_data calls in one process, the      *)
(* second on other data.  Each call constructs DropMissingValues() without *)
(* arguments (data.py:181); the list that is the default of its parameter  *)
(* values_to_drop (data.py:89) is created once, when the class is defined, *)
(* and is the variable values_to_drop of the model.                        *)
(***************************************************************************)
AgainPipelines == {[steps |-> <<>>], [steps |-> <<[name |-> <<"r">>, inputs |-> <<Sentinel>>]>>]}

AgainInstances ==
    [metafeatures : [kind : {"dict"}, items : MetafeatureDicts],
     pipeline : AgainPipelines,
     pipeline_structure : {NoEncoding}]

InitPreprocessAgain ==
    /\ train_data \in [1..1 -> AgainInstances]
    /\ test_data \in [1..1 -> AgainInstances]
    /\ preprocess_pc = "ready"
    /\ values_to_drop = <<>>
    /\ preprocess_inputs = <<[train_data |-> train_data, test_data |-> test_data]>>
    /\ AgainAlone

\* preprocess_data is called again, with other data.
PreprocessAgain ==
    /\ preprocess_pc \in {"returned", "KeyError"}
    /\ Len(preprocess_inputs) < 2
    /\ train_data' \in [1..1 -> AgainInstances]
    /\ test_data' \in [1..1 -> AgainInstances]
    /\ preprocess_pc' = "ready"
    /\ preprocess_inputs' =
            Append(preprocess_inputs, [train_data |-> train_data', test_data |-> test_data'])
    /\ UNCHANGED <<values_to_drop, others_of_again>>

NextPreprocessAgain == PreprocessReturns \/ PreprocessRaises \/ PreprocessAgain

SpecPreprocessAgain == InitPreprocessAgain /\ [][NextPreprocessAgain]_vars

\* data.py:167-203  what preprocess_data makes of its arguments when the
\* dropper starts with the given list: how it ends and the data after it.
preprocess_data(train_in, test_in, default) ==
    LET st == PreprocessStateOf(train_in, test_in, default)
    IN  IF \E i \in 1..Len(st.test) : StandardScaler_predict_raises(st.fitted, st.test_mf[i])
        THEN [pc |-> "KeyError",
              train_data |-> [i \in 1..Len(st.train) |->
                    [st.train[i] EXCEPT !.metafeatures.items = st.train_mf[i]]],
              test_data |-> [i \in 1..Len(st.test) |->
                    [st.test[i] EXCEPT !.metafeatures.items = st.test_mf[i]]]]
        ELSE [pc |-> "returned",
              train_data |-> [i \in 1..Len(st.train) |->
                    ConvertInstance(st.train[i], st.train_mf[i])],
              test_data |-> [i \in 1..Len(st.test) |->
                    ConvertInstance(st.test[i], st.test_mf[i])]]

\* C28: a DropMissingValues constructed without arguments starts with an
\* empty drop list, and a preprocess_data call ends as it would have ended
\* without the calls made before it in the process.
C28_DropListStartsEmpty ==
    /\ preprocess_pc = "ready" => values_to_drop = <<>>
    /\ preprocess_pc \in {"returned", "KeyError"} =>
        LET given == preprocess_inputs[Len(preprocess_inputs)]
        IN  [pc |-> preprocess_pc, train_data |-> train_data, test_data |-> test_data]
                = preprocess_data(given.train_data, given.test_data, <<>>)


(***************************************************************************)
(* Interleaved passes over one shuffling loader (data.py:262-270, 364-378) *)
(***************************************************************************)
\* C29: when two passes over the same shuffling GroupDataLoader are
\* interleaved, each full pass on its own still covers every group: the
\* indices in the group's batches have no duplicates, all belong to the
\* group, and are all of the group's indices (less those of a last
\* undersized batch when drop_last is enabled).
C29_InterleavedPassesCoverGroups ==
    \A p \in 1..Len(passes) :
        (FullPass(p) /\ passes[p].overlapped /\ loader.shuffle) =>
            \A group \in GroupLabels :
                LET yielded == YieldedFor(passes[p].out, group)
                    n == Cardinality(GroupIndexSet(group))
                IN  /\ Cardinality(Range(yielded)) = Len(yielded)
                    /\ Range(yielded) \subseteq GroupIndexSet(group)
                    /\ Len(yielded) = IF loader.drop_last
                                      THEN Floor(n, loader.batch_size) * loader.batch_size
                                      ELSE n


(***************************************************************************)
(* Termination of the evaluation on well-formed pipelines                  *)
(* (models.py:474, 479-505)                                                *)
(***************************************************************************)
\* A pipeline in topological order: every integer reference of step i is an
\* index smaller than i, and a step without integer references (a source)
\* carries the external-feature sentinel.
TopologicalOrder(pipeline) ==
    /\ pipeline # <<>>
    /\ \A i \in 0..(Len(pipeline) - 1) :
        LET inputs == pipeline[i + 1].inputs
            int_refs == {k \in 1..Len(inputs) : inputs[k].kind = "int"}
        IN  /\ \A k \in int_refs : inputs[k].n >= 0 /\ inputs[k].n < i
            /\ int_refs = {} => Sentinel \in Range(inputs)

\* C30: for every pipeline in topological order whose sources carry the
\* external-feature sentinel, the evaluation started at the final step
\* terminates, applies units of indices within the step list only, and
\* returns a value without reaching the error handler.
C30_TopologicalEvaluationReturns ==
    \A f \in 1..Len(forwards) :
        LET pipeline == forwards[f].pipeline
            result == forwards[f].result
        IN  TopologicalOrder(pipeline) =>
                /\ result.outcome = "returned"
                /\ result.cause = "none"
                /\ Range(result.applied) \subseteq 0..(Len(pipeline) - 1)

=============================================================================
